---------------------------- MODULE Spec2Model ----------------------------
(***************************************************************************)
(* Model of the daily-ad-report fetch scripts.                             *)
(*                                                                         *)
(*   SpecPoll  : NaverAPIClient.processStatReport, i.e. the polling loop   *)
(*               of waitForReportCompletion followed by downloadCSV        *)
(*               (scripts/fetch-naver-dok.js).                             *)
(*   SpecRetry : fetchWithRetry (scripts/fetch-meta.js).                   *)
(*   SpecCred  : the credential checks of the platform scripts and what    *)
(*               their callers make of the outcome.                        *)
(*   SpecAll   : fetchAllPlatforms, both copies of the orchestrator.       *)
(*   SpecAgg   : NaverDataAggregator on bounded report data.               *)
(*   SpecFetch : the platform fetch functions from their first request to  *)
(*               the upsert; fetchNaverData runs processStatReport.        *)
(*   SpecMetrics : calculateAllMetrics and the Meta insight row mappings   *)
(*               on bounded raw counts.                                    *)
(*   SpecCsv   : parseCSV and the NaverDataTransformer on bounded report   *)
(*               texts.                                                    *)
(*                                                                         *)
(* Each specification moves only its own variables; the variables of the   *)
(* other components stay at their initial values.                          *)
(***************************************************************************)
EXTENDS Integers, Sequences, FiniteSets, TLC

VARIABLES
    \* ---- processStatReport / waitForReportCompletion / downloadCSV ----
    pollPc,          \* position: "guard" | "status" | "download" | "parsed" | "thrown"
    attempts,        \* the local `attempts` of waitForReportCompletion
    sleeps,          \* completed sleep(POLLING_INTERVAL) calls
    statusRequests,  \* axios.get calls on /stat-reports/{id}
    nPending,        \* status responses that were neither COMPLETE/BUILT nor FAILED
    nTransport,      \* status requests that threw (no response)
    nFailed,         \* status responses with status FAILED
    lastResp,        \* the last outcome of a status request
    reportData,      \* the value waitForReportCompletion returned
    pollError,       \* the error processStatReport rejected with
    downloadRequests,\* axios.get calls on the download URL
    \* ---- fetchWithRetry ----
    maxRetries,      \* the maxRetries option of the call
    attempt,         \* the loop variable `attempt`
    fwrPc,           \* "try" | "returned" | "thrown"
    fwrRequests,     \* fetch(url) calls made
    fwrWaits,        \* the sleep(ms) calls made, in order
    fwrHistory,      \* the outcomes of the fetch calls, in order
    fwrResult,       \* the resolved value
    fwrError,        \* the error the call rejected with
    \* ---- credential checks ----
    script,          \* which platform script runs
    mode,            \* "standalone" | "integration"
    env,             \* the required variables that are set
    credPc,          \* "load" | "call" | "net" | "resolved" | "threw" | "end"
    netCalls,        \* network calls made by the script
    exitCode,        \* process exit code, NoExit while running
    recorded,        \* the results[platform] entry of fetchAllPlatforms
    \* ---- fetchAllPlatforms ----
    apVariant,       \* which copy of fetch-all-platforms.js runs: "three" | "six"
    apPc,            \* "fetch" | "stats" | "final" | "done"
    apNext,          \* index of the platform whose try block comes next
    apCalls,         \* the platform fetches called, in order
    apThrown,        \* the platforms whose fetch rejected
    apResults,       \* the local `results`
    apStats,         \* how the statistics block went
    apExit,          \* process exit code, NoExit while running
    \* ---- NaverDataAggregator ----
    agAd,            \* adData: the AD report records
    agConv,          \* conversionData: the AD_CONVERSION report records
    agTypeMap,       \* campaignTypeMap: campaign id -> ad type
    agPc,            \* "start" | "grouped" | "merged" | "routed" | "rows"
    agMerges,        \* calls of mergeConversionData so far
    agStats,         \* campaignStats
    agResult,        \* { powerlink, brand }
    agRows,          \* the rows createSupabaseData returned
    \* ---- the platform fetch functions ----
    fPlatform,       \* "naver" | "google" | "google_legacy" | "meta" | "meta_adset"
    fPc,             \* position in the fetch function
    fDates,          \* datesToRun; days are numbered
    fIdx,            \* index in fDates of the date being processed
    fReport,         \* naver: the report type being processed
    fCreated,        \* naver: report types whose creation was requested, in order
    fDownloaded,     \* naver: the reports downloaded, and whether COMPLETE/BUILT came first
    fInFlight,       \* naver: requests of fetchNaverData sent and not yet answered
    fSawFailed,      \* naver: an earlier report of this call got a FAILED status
    fInsight,        \* meta_adset: number of insightRows collected for the date
    fPages,          \* meta_adset: insights pages requested for the date
    fProduced,       \* the rows built, one entry per date processed
    fUpserts,        \* the upsert calls made, in order
    fError,          \* the error the fetch function rejected with
    fTypesFailed,    \* naver: the campaigns request of fetchCampaignTypes threw
    fAggregated,     \* naver: adData and the result of aggregateReports
    fHasNext,        \* meta_adset: the last insights response had paging.next
    \* ---- the metric calculations ----
    mPc,             \* "input" | "naver" | "meta" | "meta_dok" | "meta_legacy"
    mIn,             \* the raw counts the metrics are computed from
    mRaw,            \* naver: what the calculateMetrics functions returned
    mOut,            \* the metrics of the output row
    \* ---- report text to records ----
    cPc,             \* "text" | "parsed" | "records"
    cType,           \* the report type: "AD" | "AD_CONVERSION"
    cText,           \* csvText: the downloaded report
    cRows,           \* what parseCSV returned
    cRecords         \* what the transformer returned

pollVars == <<pollPc, attempts, sleeps, statusRequests, nPending, nTransport,
              nFailed, lastResp, reportData, pollError, downloadRequests>>
fwrVars  == <<maxRetries, attempt, fwrPc, fwrRequests, fwrWaits, fwrHistory,
              fwrResult, fwrError>>
credVars == <<script, mode, env, credPc, netCalls, exitCode, recorded>>
allVars  == <<apVariant, apPc, apNext, apCalls, apThrown, apResults, apStats, apExit>>
aggVars  == <<agAd, agConv, agTypeMap, agPc, agMerges, agStats, agResult, agRows>>
fetchVars == <<fPlatform, fPc, fDates, fIdx, fReport, fCreated, fDownloaded,
               fInFlight, fSawFailed, fInsight, fPages, fProduced, fUpserts, fError,
               fTypesFailed, fAggregated, fHasNext>>
metVars  == <<mPc, mIn, mRaw, mOut>>
csvVars  == <<cPc, cType, cText, cRows, cRecords>>
vars     == <<pollVars, fwrVars, credVars, allVars, aggVars, fetchVars, metVars,
              csvVars>>

-----------------------------------------------------------------------------
(* Program constants                                                        *)

MAX_ATTEMPTS     == 30
POLLING_INTERVAL == 10000
baseDelay        == 30000
NetworkRetryDelay == 30000
DefaultMaxRetries == 3

BRAND_SEARCH_DAILY_SPEND == 19486
\* VAT_RATE 1.1 as the fraction VAT_NUM / VAT_DEN
VAT_NUM == 11
VAT_DEN == 10

(* Bounds of the model                                                      *)
MaxRetriesBound == 3
MaxAdRows == 2
MaxConvRows == 2
MaxDates == 2
MaxRows == 2
MaxPages == 2

-----------------------------------------------------------------------------
(* processStatReport                                                        *)

NoUrl   == "<undefined>"
NoValue == [kind |-> "none"]

\* Status strings a status response may carry; NoStatus is a body without status.
NoStatus == "<undefined>"
Statuses == {"REGIST", "RUNNING", NoStatus, "COMPLETE", "BUILT", "FAILED"}

\* downloadUrl values: absent, empty, not a URL, a URL.
Urls == {NoUrl, "", "not-a-url", "https://api.searchad.naver.com/report-download?id=1"}

\* statusResponse.data of the n-th status request
Payload(status, url, n) ==
    [kind |-> "data", status |-> status, downloadUrl |-> url, n |-> n]

TransportFailure(n) == [kind |-> "transport", n |-> n]

\* while (attempts < CONFIG.REPORT.MAX_ATTEMPTS)
LoopGuardOff(a) == a <= MAX_ATTEMPTS
LoopGuard(a) == a < MAX_ATTEMPTS

\* status === 'COMPLETE' || status === 'BUILT'
IsCompleteOnlyComplete(status) == status = "COMPLETE"
IsComplete(status) == status \in {"COMPLETE", "BUILT"}

\* status === 'FAILED'
IsFailed(status) == status = "FAILED"

\* !downloadUrl
UrlMissing(url) == url \in {NoUrl, ""}

\* new URL(downloadUrl) throws a TypeError on a string that is not a URL
UrlParses(url) == url \notin {NoUrl, "", "not-a-url"}

PollInit ==
    /\ pollPc = "guard"
    /\ attempts = 0
    /\ sleeps = 0
    /\ statusRequests = 0
    /\ nPending = 0
    /\ nTransport = 0
    /\ nFailed = 0
    /\ lastResp = NoValue
    /\ reportData = NoValue
    /\ pollError = NoValue
    /\ downloadRequests = 0

\* Loop head: the guard holds, sleep(POLLING_INTERVAL), attempts++.
PollSleepAfterFirst ==
    /\ pollPc = "guard"
    /\ LoopGuard(attempts)
    /\ sleeps' = IF attempts = 0 THEN sleeps ELSE sleeps + 1
    /\ attempts' = attempts + 1
    /\ pollPc' = "status"
    /\ UNCHANGED <<statusRequests, nPending, nTransport, nFailed, lastResp,
                   reportData, pollError, downloadRequests>>
    /\ UNCHANGED <<fwrVars, credVars, allVars, aggVars, fetchVars, metVars, csvVars>>

PollSleep ==
    /\ pollPc = "guard"
    /\ LoopGuard(attempts)
    /\ sleeps' = sleeps + 1
    /\ attempts' = attempts + 1
    /\ pollPc' = "status"
    /\ UNCHANGED <<statusRequests, nPending, nTransport, nFailed, lastResp,
                   reportData, pollError, downloadRequests>>
    /\ UNCHANGED <<fwrVars, credVars, allVars, aggVars, fetchVars, metVars, csvVars>>

\* Loop exit: throw new Error('... 리포트 처리 시간 초과').
PollTimeout ==
    /\ pollPc = "guard"
    /\ ~LoopGuard(attempts)
    /\ pollPc' = "thrown"
    /\ pollError' = [kind |-> "timeout"]
    /\ UNCHANGED <<attempts, sleeps, statusRequests, nPending, nTransport,
                   nFailed, lastResp, reportData, downloadRequests>>
    /\ UNCHANGED <<fwrVars, credVars, allVars, aggVars, fetchVars, metVars, csvVars>>

\* The status request answers.  COMPLETE/BUILT returns the body.  FAILED
\* throws inside the try block, so the catch of the same block takes the
\* error, logs it, and the loop goes on.  Any other status falls through.
PollStatusResponse ==
    /\ pollPc = "status"
    /\ \E status \in Statuses, url \in Urls :
         LET data == Payload(status, url, statusRequests + 1) IN
         /\ statusRequests' = statusRequests + 1
         /\ lastResp' = data
         /\ IF IsComplete(status)
            THEN /\ reportData' = data
                 /\ pollPc' = "download"
                 /\ UNCHANGED <<nPending, nFailed>>
            ELSE IF IsFailed(status)
            THEN /\ nFailed' = nFailed + 1
                 /\ pollPc' = "guard"
                 /\ UNCHANGED <<nPending, reportData>>
            ELSE /\ nPending' = nPending + 1
                 /\ pollPc' = "guard"
                 /\ UNCHANGED <<nFailed, reportData>>
    /\ UNCHANGED <<attempts, sleeps, nTransport, pollError, downloadRequests>>
    /\ UNCHANGED <<fwrVars, credVars, allVars, aggVars, fetchVars, metVars, csvVars>>

\* The status request throws: caught, logged, the loop goes on.
PollTransportErrorThrows ==
    /\ pollPc = "status"
    /\ statusRequests' = statusRequests + 1
    /\ nTransport' = nTransport + 1
    /\ lastResp' = TransportFailure(statusRequests + 1)
    /\ pollPc' = "thrown"
    /\ pollError' = [kind |-> "transport"]
    /\ UNCHANGED <<attempts, sleeps, nPending, nFailed, reportData, downloadRequests>>
    /\ UNCHANGED <<fwrVars, credVars, allVars, aggVars, fetchVars, metVars, csvVars>>

PollTransportError ==
    /\ pollPc = "status"
    /\ statusRequests' = statusRequests + 1
    /\ nTransport' = nTransport + 1
    /\ lastResp' = TransportFailure(statusRequests + 1)
    /\ pollPc' = "guard"
    /\ UNCHANGED <<attempts, sleeps, nPending, nFailed, reportData, pollError,
                   downloadRequests>>
    /\ UNCHANGED <<fwrVars, credVars, allVars, aggVars, fetchVars, metVars, csvVars>>

\* downloadCSV(reportData.downloadUrl): the precondition and new URL(...)
\* both come before the request.
DownloadRejected ==
    /\ pollPc = "download"
    /\ \/ /\ UrlMissing(reportData.downloadUrl)
          /\ pollError' = [kind |-> "nourl"]
       \/ /\ ~UrlMissing(reportData.downloadUrl)
          /\ ~UrlParses(reportData.downloadUrl)
          /\ pollError' = [kind |-> "badurl"]
    /\ pollPc' = "thrown"
    /\ UNCHANGED <<attempts, sleeps, statusRequests, nPending, nTransport,
                   nFailed, lastResp, reportData, downloadRequests>>
    /\ UNCHANGED <<fwrVars, credVars, allVars, aggVars, fetchVars, metVars, csvVars>>

\* The download request is made; it answers with text (then parseCSV) or throws.
DownloadRequestUnguarded ==
    /\ pollPc = "download"
    /\ downloadRequests' = downloadRequests + 1
    /\ \/ /\ pollPc' = "parsed"
          /\ UNCHANGED pollError
       \/ /\ pollPc' = "thrown"
          /\ pollError' = [kind |-> "download"]
    /\ UNCHANGED <<attempts, sleeps, statusRequests, nPending, nTransport,
                   nFailed, lastResp, reportData>>
    /\ UNCHANGED <<fwrVars, credVars, allVars, aggVars, fetchVars, metVars, csvVars>>

DownloadRequest ==
    /\ pollPc = "download"
    /\ ~UrlMissing(reportData.downloadUrl)
    /\ UrlParses(reportData.downloadUrl)
    /\ downloadRequests' = downloadRequests + 1
    /\ \/ /\ pollPc' = "parsed"
          /\ UNCHANGED pollError
       \/ /\ pollPc' = "thrown"
          /\ pollError' = [kind |-> "download"]
    /\ UNCHANGED <<attempts, sleeps, statusRequests, nPending, nTransport,
                   nFailed, lastResp, reportData>>
    /\ UNCHANGED <<fwrVars, credVars, allVars, aggVars, fetchVars, metVars, csvVars>>

PollNext ==
    \/ PollSleep
    \/ PollTimeout
    \/ PollStatusResponse
    \/ PollTransportError
    \/ DownloadRejected
    \/ DownloadRequest

-----------------------------------------------------------------------------
(* fetchWithRetry                                                           *)

\* error.code values of a non-OK body; NoCode is a body without error.code,
\* which includes a body that is not JSON (errorData = {error: {message}}).
NoCode == 0
ErrorCodes == {4, 17, 32, 613, 190, NoCode}

\* Response bodies of an OK response; BadJson makes res.json() reject.
BadJson == "<not json>"
OkBodies == {"page-1", "page-2", BadJson}

\* What fetch(url) can throw.
NetworkErrors == {"ECONNRESET", "ETIMEDOUT"}

OkResponse(body) == [kind |-> "ok", body |-> body]
HttpError(code, transient) == [kind |-> "http", code |-> code, is_transient |-> transient]
NetworkFailure(e) == [kind |-> "network", id |-> e]

RECURSIVE Pow2(_)
Pow2(n) == IF n <= 0 THEN 1 ELSE 2 * Pow2(n - 1)

\* [4, 17, 32, 613].includes(errorCode) || isTransient
IsRateLimit(code, transient) == code \in {4, 17, 32, 613} \/ transient = TRUE

\* baseDelay * Math.pow(2, attempt - 1)
WaitTimeFixed(a) == baseDelay
WaitTime(a) == baseDelay * Pow2(a - 1)

\* isRateLimit && attempt < maxRetries
RetriesWithBackoffOff(code, transient, a, m) == IsRateLimit(code, transient) /\ a <= m
RetriesWithBackoff(code, transient, a, m) == IsRateLimit(code, transient) /\ a < m

\* catch (error) { if (attempt === maxRetries) throw error; ... }
CatchRethrowsNever(a, m) == FALSE
CatchRethrows(a, m) == a = m

FwrInit ==
    /\ maxRetries \in 0..MaxRetriesBound
    /\ attempt = 1
    /\ fwrPc = "try"
    /\ fwrRequests = 0
    /\ fwrWaits = <<>>
    /\ fwrHistory = <<>>
    /\ fwrResult = NoValue
    /\ fwrError = NoValue

\* What the catch block does with an error thrown in the try block:
\* rethrow on the last attempt, otherwise sleep(30000) and go round again.
FwrCatch(err) ==
    IF CatchRethrows(attempt, maxRetries)
    THEN /\ fwrPc' = "thrown"
         /\ fwrError' = err
         /\ UNCHANGED <<attempt, fwrWaits>>
    ELSE /\ fwrWaits' = Append(fwrWaits, NetworkRetryDelay)
         /\ attempt' = attempt + 1
         /\ UNCHANGED <<fwrPc, fwrError>>

\* res.ok: return res.json().  The promise is returned without await, so a
\* rejection of res.json() leaves the function and is not caught here.
FwrOk ==
    /\ fwrPc = "try"
    /\ attempt <= maxRetries
    /\ \E body \in OkBodies :
         /\ fwrRequests' = fwrRequests + 1
         /\ fwrHistory' = Append(fwrHistory, OkResponse(body))
         /\ IF body = BadJson
            THEN /\ fwrPc' = "thrown"
                 /\ fwrError' = [kind |-> "parse"]
                 /\ UNCHANGED fwrResult
            ELSE /\ fwrPc' = "returned"
                 /\ fwrResult' = [kind |-> "json", body |-> body]
                 /\ UNCHANGED fwrError
    /\ UNCHANGED <<maxRetries, attempt, fwrWaits>>
    /\ UNCHANGED <<pollVars, credVars, allVars, aggVars, fetchVars, metVars, csvVars>>

\* A non-OK response.  Rate limit with attempts left: exponential wait and
\* continue.  Otherwise the Error is thrown inside the try block and the
\* catch block of the same try takes it.
FwrHttpError ==
    /\ fwrPc = "try"
    /\ attempt <= maxRetries
    /\ \E code \in ErrorCodes, transient \in BOOLEAN :
         /\ fwrRequests' = fwrRequests + 1
         /\ fwrHistory' = Append(fwrHistory, HttpError(code, transient))
         /\ IF RetriesWithBackoff(code, transient, attempt, maxRetries)
            THEN /\ fwrWaits' = Append(fwrWaits, WaitTime(attempt))
                 /\ attempt' = attempt + 1
                 /\ UNCHANGED <<fwrPc, fwrError>>
            ELSE FwrCatch([kind |-> "http", code |-> code, is_transient |-> transient])
    /\ UNCHANGED <<maxRetries, fwrResult>>
    /\ UNCHANGED <<pollVars, credVars, allVars, aggVars, fetchVars, metVars, csvVars>>

\* fetch(url) throws: no response at all.
FwrNetworkError ==
    /\ fwrPc = "try"
    /\ attempt <= maxRetries
    /\ \E e \in NetworkErrors :
         /\ fwrRequests' = fwrRequests + 1
         /\ fwrHistory' = Append(fwrHistory, NetworkFailure(e))
         /\ FwrCatch([kind |-> "network", id |-> e])
    /\ UNCHANGED <<maxRetries, fwrResult>>
    /\ UNCHANGED <<pollVars, credVars, allVars, aggVars, fetchVars, metVars, csvVars>>

\* The loop ends without return or throw: throw new Error('... 요청 실패').
FwrExhausted ==
    /\ fwrPc = "try"
    /\ attempt > maxRetries
    /\ fwrPc' = "thrown"
    /\ fwrError' = [kind |-> "exhausted"]
    /\ UNCHANGED <<maxRetries, attempt, fwrRequests, fwrWaits, fwrHistory, fwrResult>>
    /\ UNCHANGED <<pollVars, credVars, allVars, aggVars, fetchVars, metVars, csvVars>>

FwrNext ==
    \/ FwrOk
    \/ FwrHttpError
    \/ FwrNetworkError
    \/ FwrExhausted

-----------------------------------------------------------------------------
(* Credential checks of the platform scripts                                *)

Scripts == {"meta", "naver", "google"}
Modes   == {"standalone", "integration"}

NoExit  == -1
NoError == "<null>"

\* The environment variables each script validates.
RequiredVars(s) ==
    CASE s = "meta"   -> {"META_TOKEN", "META_AD_ACCOUNT", "SUPA_URL", "SUPA_KEY"}
      [] s = "naver"  -> {"DOK_NAVER_API_KEY", "DOK_NAVER_SECRET_KEY", "DOK_NAVER_CUSTOMER_ID"}
      [] s = "google" -> {"GOOGLE_CLIENT_ID", "GOOGLE_CLIENT_SECRET", "GOOGLE_REFRESH_TOKEN",
                          "GOOGLE_DEVELOPER_TOKEN", "GOOGLE_CUSTOMER_ID",
                          "GOOGLE_CLIENT_CUSTOMER_ID"}
      [] OTHER        -> {}

\* fetch-meta.js, module level:
\* if (!META_TOKEN || !META_AD_ACCOUNT || !SUPA_URL || !SUPA_KEY) process.exit(1)
MetaCheckFails(e) ==
    \/ "META_TOKEN" \notin e
    \/ "META_AD_ACCOUNT" \notin e
    \/ "SUPA_URL" \notin e
    \/ "SUPA_KEY" \notin e

\* NaverAPIClient constructor:
\* if (!this.apiKey || !this.secretKey || !this.customerId) throw new Error(...)
NaverCheckFails(e) ==
    \/ "DOK_NAVER_API_KEY" \notin e
    \/ "DOK_NAVER_SECRET_KEY" \notin e
    \/ "DOK_NAVER_CUSTOMER_ID" \notin e

\* fetchGoogleData: four checks, each of which logs and returns.
GoogleCheckFails(e) ==
    \/ ("GOOGLE_CLIENT_ID" \notin e \/ "GOOGLE_CLIENT_SECRET" \notin e
          \/ "GOOGLE_REFRESH_TOKEN" \notin e)
    \/ "GOOGLE_DEVELOPER_TOKEN" \notin e
    \/ "GOOGLE_CUSTOMER_ID" \notin e
    \/ "GOOGLE_CLIENT_CUSTOMER_ID" \notin e

CredInit ==
    /\ script \in Scripts
    /\ mode \in Modes
    /\ env \in SUBSET RequiredVars(script)
    /\ credPc = "load"
    /\ netCalls = 0
    /\ exitCode = NoExit
    /\ recorded = [success |-> FALSE, error |-> NoError]

\* The module body runs, on direct execution and on import alike.  Only the
\* Meta script validates here, and it ends the process.
ModuleLoad ==
    /\ credPc = "load"
    /\ IF script = "meta" /\ MetaCheckFails(env)
       THEN /\ exitCode' = 1
            /\ credPc' = "end"
       ELSE /\ credPc' = "call"
            /\ UNCHANGED exitCode
    /\ UNCHANGED <<script, mode, env, netCalls, recorded>>
    /\ UNCHANGED <<pollVars, fwrVars, allVars, aggVars, fetchVars, metVars, csvVars>>

\* fetchAndUpsert: no check of its own, goes straight to fetch(url).
MetaFetchStart ==
    /\ credPc = "call"
    /\ script = "meta"
    /\ credPc' = "net"
    /\ UNCHANGED <<script, mode, env, netCalls, exitCode, recorded>>
    /\ UNCHANGED <<pollVars, fwrVars, allVars, aggVars, fetchVars, metVars, csvVars>>

\* fetchNaverData: new NaverAPIClient() inside the try block; the catch
\* logs and rethrows.
NaverConstructor ==
    /\ credPc = "call"
    /\ script = "naver"
    /\ credPc' = IF NaverCheckFails(env) THEN "threw" ELSE "net"
    /\ UNCHANGED <<script, mode, env, netCalls, exitCode, recorded>>
    /\ UNCHANGED <<pollVars, fwrVars, allVars, aggVars, fetchVars, metVars, csvVars>>

\* fetchGoogleData: a failed check logs and returns, the promise resolves.
GoogleEnvCheck ==
    /\ credPc = "call"
    /\ script = "google"
    /\ credPc' = IF GoogleCheckFails(env) THEN "resolved" ELSE "net"
    /\ UNCHANGED <<script, mode, env, netCalls, exitCode, recorded>>
    /\ UNCHANGED <<pollVars, fwrVars, allVars, aggVars, fetchVars, metVars, csvVars>>

\* The rest of the fetch: the first vendor request, after which the fetch
\* resolves or rejects.
FetchRuns ==
    /\ credPc = "net"
    /\ netCalls' = netCalls + 1
    /\ credPc' \in {"resolved", "threw"}
    /\ UNCHANGED <<script, mode, env, exitCode, recorded>>
    /\ UNCHANGED <<pollVars, fwrVars, allVars, aggVars, fetchVars, metVars, csvVars>>

\* The promise resolved.  Standalone: nothing calls process.exit, the
\* process ends with code 0.  fetchAllPlatforms: results[p].success = true.
CallerOnResolve ==
    /\ credPc = "resolved"
    /\ credPc' = "end"
    /\ IF mode = "standalone"
       THEN /\ exitCode' = 0
            /\ UNCHANGED recorded
       ELSE /\ recorded' = [success |-> TRUE, error |-> NoError]
            /\ UNCHANGED exitCode
    /\ UNCHANGED <<script, mode, env, netCalls>>
    /\ UNCHANGED <<pollVars, fwrVars, allVars, aggVars, fetchVars, metVars, csvVars>>

\* The promise rejected.  Standalone: .catch(err => process.exit(1)).
\* fetchAllPlatforms: results[p].error = error.message.
CallerOnThrow ==
    /\ credPc = "threw"
    /\ credPc' = "end"
    /\ IF mode = "standalone"
       THEN /\ exitCode' = 1
            /\ UNCHANGED recorded
       ELSE /\ recorded' = [success |-> FALSE, error |-> "error.message"]
            /\ UNCHANGED exitCode
    /\ UNCHANGED <<script, mode, env, netCalls>>
    /\ UNCHANGED <<pollVars, fwrVars, allVars, aggVars, fetchVars, metVars, csvVars>>

CredNext ==
    \/ ModuleLoad
    \/ MetaFetchStart
    \/ NaverConstructor
    \/ GoogleEnvCheck
    \/ FetchRuns
    \/ CallerOnResolve
    \/ CallerOnThrow

-----------------------------------------------------------------------------
(* fetchAllPlatforms                                                        *)

MaxCount == 1
MaxMetric == 2
MaxLines  == 2
MaxFields == 15

\* The keys of `results`, in the order of the try blocks.
PlatformOrder(v) ==
    IF v = "three"
    THEN <<"meta", "naver", "google">>
    ELSE <<"meta", "naver", "google", "dok_meta", "dok_naver", "dok_google">>

PlatformSet(v) == {PlatformOrder(v)[i] : i \in 1..Len(PlatformOrder(v))}

\* error.message of what a platform fetch rejects with
ErrorMessages == {"Meta API error: 400 Bad Request", "duplicate key value"}

AllInit ==
    /\ apVariant \in {"three", "six"}
    /\ apPc = "fetch"
    /\ apNext = 1
    /\ apCalls = <<>>
    /\ apThrown = {}
    /\ apResults = [p \in PlatformSet(apVariant) |->
                       [success |-> FALSE, error |-> NoError, count |-> 0]]
    /\ apStats = "none"
    /\ apExit = NoExit

\* Where control goes after the try/catch of platform number i.
AfterPlatform(i) == IF i < Len(PlatformOrder(apVariant)) THEN "fetch" ELSE "stats"

\* try { await fetchX(); results.x.success = true; }
PlatformFetchResolves ==
    /\ apPc = "fetch"
    /\ apNext <= Len(PlatformOrder(apVariant))
    /\ LET p == PlatformOrder(apVariant)[apNext] IN
         /\ apCalls' = Append(apCalls, p)
         /\ apResults' = [apResults EXCEPT ![p].success = TRUE]
    /\ apPc' = AfterPlatform(apNext)
    /\ apNext' = apNext + 1
    /\ UNCHANGED <<apVariant, apThrown, apStats, apExit>>
    /\ UNCHANGED <<pollVars, fwrVars, credVars, aggVars, fetchVars, metVars, csvVars>>

\* catch (error) { results.x.error = error.message; }
PlatformFetchThrowsAborts ==
    /\ apPc = "fetch"
    /\ apNext <= Len(PlatformOrder(apVariant))
    /\ \E msg \in ErrorMessages :
         LET p == PlatformOrder(apVariant)[apNext] IN
         /\ apCalls' = Append(apCalls, p)
         /\ apThrown' = apThrown \cup {p}
         /\ apResults' = [apResults EXCEPT ![p].error = msg]
    /\ apPc' = "stats"
    /\ apNext' = apNext + 1
    /\ UNCHANGED <<apVariant, apStats, apExit>>
    /\ UNCHANGED <<pollVars, fwrVars, credVars, aggVars, fetchVars, metVars, csvVars>>

PlatformFetchThrows ==
    /\ apPc = "fetch"
    /\ apNext <= Len(PlatformOrder(apVariant))
    /\ \E msg \in ErrorMessages :
         LET p == PlatformOrder(apVariant)[apNext] IN
         /\ apCalls' = Append(apCalls, p)
         /\ apThrown' = apThrown \cup {p}
         /\ apResults' = [apResults EXCEPT ![p].error = msg]
    /\ apPc' = AfterPlatform(apNext)
    /\ apNext' = apNext + 1
    /\ UNCHANGED <<apVariant, apStats, apExit>>
    /\ UNCHANGED <<pollVars, fwrVars, credVars, aggVars, fetchVars, metVars, csvVars>>

\* The statistics block.  getCollectionStats has its own try/catch and
\* returns zeros when the query fails; displaySummary may throw, and the
\* catch of the block logs that.  Only the count fields are written.
StatsBlock ==
    /\ apPc = "stats"
    /\ \E how \in {"ok", "queryFailed", "summaryThrew"}, c \in 0..MaxCount :
         /\ apStats' = how
         /\ apResults' = [p \in DOMAIN apResults |->
                            [apResults[p] EXCEPT !.count =
                                IF how = "queryFailed" THEN 0 ELSE c]]
    /\ apPc' = "final"
    /\ UNCHANGED <<apVariant, apNext, apCalls, apThrown, apExit>>
    /\ UNCHANGED <<pollVars, fwrVars, credVars, aggVars, fetchVars, metVars, csvVars>>

\* Object.values(results).filter(r => r.success).length
successCount == Cardinality({p \in DOMAIN apResults : apResults[p].success})

\* if (successCount === total) ... else if (successCount > 0) ... else process.exit(1)
ExitsNonZeroOnAnyFailure(n, total) == n < total
ExitsNonZero(n, total) == ~(n = total) /\ ~(n > 0)

\* The last block; without process.exit the function returns and the
\* process ends with code 0.
FinalResult ==
    /\ apPc = "final"
    /\ apExit' = IF ExitsNonZero(successCount, Cardinality(DOMAIN apResults))
                 THEN 1 ELSE 0
    /\ apPc' = "done"
    /\ UNCHANGED <<apVariant, apNext, apCalls, apThrown, apResults, apStats>>
    /\ UNCHANGED <<pollVars, fwrVars, credVars, aggVars, fetchVars, metVars, csvVars>>

AllNext ==
    \/ PlatformFetchResolves
    \/ PlatformFetchThrows
    \/ StatsBlock
    \/ FinalResult

-----------------------------------------------------------------------------
(* NaverDataAggregator                                                      *)

CampaignIds == {"cmp-1", "cmp-2"}

\* The numeric fields of an AD record.  Costs are multiples of VAT_DEN, so
\* that cost * VAT_RATE is a whole number.
AdMetrics ==
    { [impressions |-> 0,  clicks |-> 0, cost |-> 0,   sumAdRank |-> 0],
      [impressions |-> 10, clicks |-> 1, cost |-> 100, sumAdRank |-> 10],
      [impressions |-> 20, clicks |-> 2, cost |-> 50,  sumAdRank |-> 40] }

AdRecords ==
    { [campaignId |-> c, impressions |-> m.impressions, clicks |-> m.clicks,
       cost |-> m.cost, sumAdRank |-> m.sumAdRank] : c \in CampaignIds, m \in AdMetrics }

ConvRecords ==
    { [campaignId |-> c, conversionCount |-> k.count, conversionValue |-> k.value] :
        c \in CampaignIds,
        k \in { [count |-> 1, value |-> 50], [count |-> 2, value |-> 70] } }

\* The values fetchCampaignTypes stores.
AdTypes == {"BRAND_SEARCH_AD", "SHOPPING_PRODUCT_AD", "TEXT_45"}

SeqsUpTo(S, n) == UNION { [1..k -> S] : k \in 0..n }

TypeMaps == UNION { [D -> AdTypes] : D \in SUBSET CampaignIds }

\* A Map: its keys in insertion order and its values.
EmptyMap == [keys |-> <<>>, val |-> [k \in {} |-> 0]]

MapHas(m, k) == k \in DOMAIN m.val

MapSet(m, k, v) ==
    [keys |-> IF MapHas(m, k) THEN m.keys ELSE Append(m.keys, k),
     val  |-> [x \in (DOMAIN m.val) \cup {k} |-> IF x = k THEN v ELSE m.val[x]]]

ZeroStats ==
    [impressions |-> 0, clicks |-> 0, cost |-> 0, sumAdRank |-> 0,
     conversions |-> 0, conversionValue |-> 0]

\* aggregateAdData: the loop over adData from row i on.
RECURSIVE AggregateAdDataFrom(_, _, _)
AggregateAdDataFrom(adData, i, campaignStats) ==
    IF i > Len(adData) THEN campaignStats
    ELSE LET ad    == adData[i]
             m     == IF MapHas(campaignStats, ad.campaignId) THEN campaignStats
                      ELSE MapSet(campaignStats, ad.campaignId, ZeroStats)
             stats == m.val[ad.campaignId]
             upd   == [stats EXCEPT !.impressions = @ + ad.impressions,
                                    !.clicks = @ + ad.clicks,
                                    !.cost = @ + ad.cost,
                                    !.sumAdRank = @ + ad.sumAdRank]
         IN AggregateAdDataFrom(adData, i + 1, MapSet(m, ad.campaignId, upd))

\* A grouping in which a later row of a campaign replaces the earlier ones.
RECURSIVE AggregateAdDataLastWinsFrom(_, _, _)
AggregateAdDataLastWinsFrom(adData, i, campaignStats) ==
    IF i > Len(adData) THEN campaignStats
    ELSE LET ad == adData[i] IN
         AggregateAdDataLastWinsFrom(adData, i + 1,
             MapSet(campaignStats, ad.campaignId,
                    [ZeroStats EXCEPT !.impressions = ad.impressions,
                                      !.clicks = ad.clicks,
                                      !.cost = ad.cost,
                                      !.sumAdRank = ad.sumAdRank]))

AggregateAdDataLastWins(adData) == AggregateAdDataLastWinsFrom(adData, 1, EmptyMap)

AggregateAdData(adData) == AggregateAdDataFrom(adData, 1, EmptyMap)

\* mergeConversionData, first loop: sums per campaign id.
RECURSIVE CampaignConversionsFrom(_, _, _)
CampaignConversionsFrom(conversionData, i, campaignConversions) ==
    IF i > Len(conversionData) THEN campaignConversions
    ELSE LET conv == conversionData[i]
             m    == IF MapHas(campaignConversions, conv.campaignId)
                     THEN campaignConversions
                     ELSE MapSet(campaignConversions, conv.campaignId,
                                 [count |-> 0, value |-> 0])
             cs   == m.val[conv.campaignId]
             upd  == [count |-> cs.count + conv.conversionCount,
                      value |-> cs.value + conv.conversionValue]
         IN CampaignConversionsFrom(conversionData, i + 1,
                                    MapSet(m, conv.campaignId, upd))

\* A merge that also creates the campaigns campaignStats lacks.
RECURSIVE InsertMissing(_, _, _)
InsertMissing(campaignStats, cc, i) ==
    IF i > Len(cc.keys) THEN campaignStats
    ELSE LET id   == cc.keys[i]
             base == IF MapHas(campaignStats, id) THEN campaignStats.val[id] ELSE ZeroStats
         IN InsertMissing(
              MapSet(campaignStats, id,
                     [base EXCEPT !.conversions = cc.val[id].count,
                                  !.conversionValue = cc.val[id].value]),
              cc, i + 1)

MergeConversionDataInserts(campaignStats, conversionData) ==
    InsertMissing(campaignStats, CampaignConversionsFrom(conversionData, 1, EmptyMap), 1)

\* mergeConversionData, second loop: for the campaigns campaignStats has,
\* the conversion fields are assigned.
MergeConversionDataAdds(campaignStats, conversionData) ==
    LET cc == CampaignConversionsFrom(conversionData, 1, EmptyMap) IN
    [campaignStats EXCEPT !.val =
        [id \in DOMAIN campaignStats.val |->
            IF MapHas(cc, id)
            THEN [campaignStats.val[id] EXCEPT
                     !.conversions = @ + cc.val[id].count,
                     !.conversionValue = @ + cc.val[id].value]
            ELSE campaignStats.val[id]]]

MergeConversionData(campaignStats, conversionData) ==
    LET cc == CampaignConversionsFrom(conversionData, 1, EmptyMap) IN
    [campaignStats EXCEPT !.val =
        [id \in DOMAIN campaignStats.val |->
            IF MapHas(cc, id)
            THEN [campaignStats.val[id] EXCEPT
                     !.conversions = cc.val[id].count,
                     !.conversionValue = cc.val[id].value]
            ELSE campaignStats.val[id]]]

\* campaignTypeMap.get(campaignId) || 'TEXT_45'
LookupAdTypeDefaultBrand(campaignTypeMap, campaignId) ==
    IF campaignId \in DOMAIN campaignTypeMap THEN campaignTypeMap[campaignId]
    ELSE "BRAND_SEARCH_AD"
LookupAdType(campaignTypeMap, campaignId) ==
    IF campaignId \in DOMAIN campaignTypeMap THEN campaignTypeMap[campaignId]
    ELSE "TEXT_45"

InitialCohorts ==
    [powerlink |-> [spend |-> 0, impressions |-> 0, clicks |-> 0, conversion |-> 0,
                    conversionValue |-> 0, sumAdRank |-> 0, campaignCount |-> 0],
     brand     |-> [spend |-> BRAND_SEARCH_DAILY_SPEND, impressions |-> 0, clicks |-> 0,
                    conversion |-> 0, conversionValue |-> 0, sumAdRank |-> 0,
                    campaignCount |-> 0]]

\* aggregateByAdType: the loop over campaignStats from entry i on.
RECURSIVE AggregateByAdTypeFrom(_, _, _, _)
AggregateByAdTypeFrom(campaignStats, campaignTypeMap, i, acc) ==
    IF i > Len(campaignStats.keys) THEN acc
    ELSE LET campaignId == campaignStats.keys[i]
             stats      == campaignStats.val[campaignId]
             adType     == LookupAdType(campaignTypeMap, campaignId)
             next ==
               IF adType = "BRAND_SEARCH_AD"
               THEN [acc EXCEPT
                       !.brand.impressions = @ + stats.impressions,
                       !.brand.clicks = @ + stats.clicks,
                       !.brand.conversion = @ + stats.conversions,
                       !.brand.conversionValue = @ + stats.conversionValue,
                       !.brand.sumAdRank = @ + stats.sumAdRank,
                       !.brand.campaignCount = @ + 1]
               ELSE [acc EXCEPT
                       !.powerlink.spend = @ + (stats.cost * VAT_NUM) \div VAT_DEN,
                       !.powerlink.impressions = @ + stats.impressions,
                       !.powerlink.clicks = @ + stats.clicks,
                       !.powerlink.conversion = @ + stats.conversions,
                       !.powerlink.conversionValue = @ + stats.conversionValue,
                       !.powerlink.sumAdRank = @ + stats.sumAdRank,
                       !.powerlink.campaignCount = @ + 1]
         IN AggregateByAdTypeFrom(campaignStats, campaignTypeMap, i + 1, next)

\* A routing that also charges the brand campaigns' cost, with VAT, to brand.
RECURSIVE BrandCostFrom(_, _, _)
BrandCostFrom(campaignStats, campaignTypeMap, i) ==
    IF i > Len(campaignStats.keys) THEN 0
    ELSE (IF LookupAdType(campaignTypeMap, campaignStats.keys[i]) = "BRAND_SEARCH_AD"
          THEN campaignStats.val[campaignStats.keys[i]].cost ELSE 0)
         + BrandCostFrom(campaignStats, campaignTypeMap, i + 1)

AggregateByAdTypeChargesBrand(campaignStats, campaignTypeMap) ==
    LET r == AggregateByAdTypeFrom(campaignStats, campaignTypeMap, 1, InitialCohorts) IN
    [r EXCEPT !.brand.spend =
        @ + (BrandCostFrom(campaignStats, campaignTypeMap, 1) * VAT_NUM) \div VAT_DEN]

AggregateByAdType(campaignStats, campaignTypeMap) ==
    AggregateByAdTypeFrom(campaignStats, campaignTypeMap, 1, InitialCohorts)

\* getKSTYesterday(), as a day number
Yesterday == 1

\* createSupabaseData; the derived ratios of calculateAllMetrics are left out.
SupabaseRow(date, campaign, cohort) ==
    [date |-> date, campaign |-> campaign, spend |-> cohort.spend,
     impressions |-> cohort.impressions, clicks |-> cohort.clicks,
     conversion |-> cohort.conversion, conversion_value |-> cohort.conversionValue]

HasActivityAlways(cohort) == TRUE
HasActivity(cohort) == cohort.spend > 0 \/ cohort.impressions > 0 \/ cohort.clicks > 0

CreateSupabaseData(cohorts, date) ==
    (IF HasActivity(cohorts.powerlink)
     THEN <<SupabaseRow(date, "Naver SA", cohorts.powerlink)>> ELSE <<>>)
    \o
    (IF HasActivity(cohorts.brand)
     THEN <<SupabaseRow(date, "Naver BS", cohorts.brand)>> ELSE <<>>)

AggregateReports(adData, conversionData, campaignTypeMap) ==
    AggregateByAdType(MergeConversionData(AggregateAdData(adData), conversionData),
                      campaignTypeMap)

AggInit ==
    /\ agAd \in SeqsUpTo(AdRecords, MaxAdRows)
    /\ agConv \in SeqsUpTo(ConvRecords, MaxConvRows)
    /\ agTypeMap \in TypeMaps
    /\ agPc = "start"
    /\ agMerges = 0
    /\ agStats = EmptyMap
    /\ agResult = InitialCohorts
    /\ agRows = <<>>

\* const campaignStats = aggregateAdData(adData)
AggAdData ==
    /\ agPc = "start"
    /\ agStats' = AggregateAdData(agAd)
    /\ agPc' = "grouped"
    /\ UNCHANGED <<agAd, agConv, agTypeMap, agMerges, agResult, agRows>>
    /\ UNCHANGED <<pollVars, fwrVars, credVars, allVars, fetchVars, metVars, csvVars>>

AggMergeInserts ==
    /\ agPc = "grouped"
    /\ agStats' = MergeConversionDataInserts(agStats, agConv)
    /\ agMerges' = 1
    /\ agPc' = "merged"
    /\ UNCHANGED <<agAd, agConv, agTypeMap, agResult, agRows>>
    /\ UNCHANGED <<pollVars, fwrVars, credVars, allVars, fetchVars, metVars, csvVars>>

\* mergeConversionData(campaignStats, conversionData)
AggMerge ==
    /\ agPc = "grouped"
    /\ agStats' = MergeConversionData(agStats, agConv)
    /\ agMerges' = 1
    /\ agPc' = "merged"
    /\ UNCHANGED <<agAd, agConv, agTypeMap, agResult, agRows>>
    /\ UNCHANGED <<pollVars, fwrVars, credVars, allVars, fetchVars, metVars, csvVars>>

\* mergeConversionData applied once more to the merged campaignStats
AggMergeAgain ==
    /\ agPc = "merged"
    /\ agMerges = 1
    /\ agStats' = MergeConversionData(agStats, agConv)
    /\ agMerges' = 2
    /\ UNCHANGED <<agAd, agConv, agTypeMap, agPc, agResult, agRows>>
    /\ UNCHANGED <<pollVars, fwrVars, credVars, allVars, fetchVars, metVars, csvVars>>

\* const result = aggregateByAdType(campaignStats, campaignTypeMap)
AggByAdTypeDropsUnmapped ==
    /\ agPc = "merged"
    /\ agResult' = AggregateByAdType(
                       [keys |-> SelectSeq(agStats.keys, LAMBDA k : k \in DOMAIN agTypeMap),
                        val  |-> agStats.val],
                       agTypeMap)
    /\ agPc' = "routed"
    /\ UNCHANGED <<agAd, agConv, agTypeMap, agMerges, agStats, agRows>>
    /\ UNCHANGED <<pollVars, fwrVars, credVars, allVars, fetchVars, metVars, csvVars>>

AggByAdType ==
    /\ agPc = "merged"
    /\ agResult' = AggregateByAdType(agStats, agTypeMap)
    /\ agPc' = "routed"
    /\ UNCHANGED <<agAd, agConv, agTypeMap, agMerges, agStats, agRows>>
    /\ UNCHANGED <<pollVars, fwrVars, credVars, allVars, fetchVars, metVars, csvVars>>

\* const rows = NaverDataTransformer.createSupabaseData(aggregatedData, yesterday)
AggCreateRows ==
    /\ agPc = "routed"
    /\ agRows' = CreateSupabaseData(agResult, Yesterday)
    /\ agPc' = "rows"
    /\ UNCHANGED <<agAd, agConv, agTypeMap, agMerges, agStats, agResult>>
    /\ UNCHANGED <<pollVars, fwrVars, credVars, allVars, fetchVars, metVars, csvVars>>

AggNext ==
    \/ AggAdData
    \/ AggMerge
    \/ AggMergeAgain
    \/ AggByAdType
    \/ AggCreateRows

-----------------------------------------------------------------------------
(* The platform fetch functions                                             *)

Platforms == {"naver", "google", "google_legacy", "meta", "meta_adset"}

\* new Date().toISOString()
NowStamp == "<now>"

\* The error object of a failed upsert.
StoreErrors == {"duplicate key value", "permission denied"}

\* Non-empty lists of distinct days.
DateLists ==
    { ds \in UNION { [1..k -> 1..MaxDates] : k \in 1..MaxDates } :
        \A i, j \in DOMAIN ds : i # j => ds[i] # ds[j] }

\* rows.forEach(row => { row.updated_at = now; })
Stamp(rows, now) ==
    [i \in DOMAIN rows |->
        [f \in (DOMAIN rows[i]) \cup {"updated_at"} |->
            IF f = "updated_at" THEN now ELSE rows[i][f]]]

\* The entry of fProduced / fUpserts for the date being processed.
CurrentDate == fDates[fIdx]
Produced(rows) == [date |-> CurrentDate, rows |-> rows]
CurrentRows == fProduced[Len(fProduced)].rows
UpsertCall(rows, error) == [date |-> CurrentDate, rows |-> rows, error |-> error]

\* The function rejects with err.
Rejects(err) ==
    /\ fPc' = "rejected"
    /\ fError' = err

\* End of one pass of `for (const targetDate of datesToRun)`.
NextDate(loopPc) ==
    IF fIdx < Len(fDates)
    THEN fPc' = loopPc /\ fIdx' = fIdx + 1
    ELSE fPc' = "resolved" /\ fIdx' = fIdx

\* the Map fetchCampaignTypes returns when its request failed
NoTypes == [c \in {} |-> "TEXT_45"]

FetchInit ==
    /\ fTypesFailed = FALSE
    /\ fAggregated = NoValue
    /\ fHasNext = FALSE
    /\ fPlatform \in Platforms
    /\ fDates \in IF fPlatform \in {"google", "meta_adset"} THEN DateLists
                                                          ELSE {<<Yesterday>>}
    /\ fPc = CASE fPlatform = "naver" -> "types"
               [] fPlatform \in {"google", "google_legacy"} -> "auth"
               [] fPlatform = "meta" -> "insights"
               [] OTHER -> "timezone"
    /\ fIdx = 1
    /\ fReport = "none"
    /\ fCreated = <<>>
    /\ fDownloaded = {}
    /\ fInFlight = {}
    /\ fSawFailed = FALSE
    /\ fInsight = 0
    /\ fPages = 0
    /\ fProduced = <<>>
    /\ fUpserts = <<>>
    /\ fError = NoError

(* ---- fetchNaverData ---- *)

\* processStatReport starts: the polling state of a fresh call.
PollStart ==
    /\ pollPc' = "guard"
    /\ attempts' = 0
    /\ sleeps' = 0
    /\ statusRequests' = 0
    /\ nPending' = 0
    /\ nTransport' = 0
    /\ nFailed' = 0
    /\ lastResp' = NoValue
    /\ reportData' = NoValue
    /\ pollError' = NoValue
    /\ downloadRequests' = 0

\* processStatReport is over: its locals are gone.
PollEnd ==
    /\ pollPc' = "idle"
    /\ attempts' = 0
    /\ sleeps' = 0
    /\ statusRequests' = 0
    /\ nPending' = 0
    /\ nTransport' = 0
    /\ nFailed' = 0
    /\ lastResp' = NoValue
    /\ reportData' = NoValue
    /\ pollError' = NoValue
    /\ downloadRequests' = 0

\* await apiClient.fetchCampaignTypes(): the request is sent.
NaverTypesRequest ==
    /\ fPlatform = "naver"
    /\ fPc = "types"
    /\ fInFlight' = fInFlight \cup {"campaigns"}
    /\ fPc' = "typesSent"
    /\ UNCHANGED <<fPlatform, fDates, fTypesFailed, fAggregated, fHasNext, fIdx, fReport, fCreated, fDownloaded, fSawFailed,
                   fInsight, fPages, fProduced, fUpserts, fError>>
    /\ UNCHANGED <<pollVars, fwrVars, credVars, allVars, aggVars, metVars, csvVars>>

\* The campaigns request answers or throws; fetchCampaignTypes swallows the
\* error and returns the map it has.  Then sleep(API_DELAY).
NaverTypesResponseRethrows ==
    /\ fPlatform = "naver"
    /\ fPc = "typesSent"
    /\ fInFlight' = fInFlight \ {"campaigns"}
    /\ \E outcome \in {"campaigns", "campaignsFailed"} :
         /\ fTypesFailed' = (outcome = "campaignsFailed")
         /\ IF outcome = "campaignsFailed"
            THEN Rejects(outcome) /\ UNCHANGED fReport
            ELSE fReport' = "AD" /\ fPc' = "create" /\ UNCHANGED fError
    /\ UNCHANGED <<fPlatform, fDates, fAggregated, fHasNext, fIdx, fCreated, fDownloaded, fSawFailed,
                   fInsight, fPages, fProduced, fUpserts>>
    /\ UNCHANGED <<pollVars, fwrVars, credVars, allVars, aggVars, metVars, csvVars>>

NaverTypesResponse ==
    /\ fPlatform = "naver"
    /\ fPc = "typesSent"
    /\ fInFlight' = fInFlight \ {"campaigns"}
    /\ \E outcome \in {"campaigns", "campaignsFailed"} :
         fTypesFailed' = (outcome = "campaignsFailed")
    /\ fReport' = "AD"
    /\ fPc' = "create"
    /\ UNCHANGED <<fPlatform, fDates, fAggregated, fHasNext, fIdx, fCreated, fDownloaded, fSawFailed,
                   fInsight, fPages, fProduced, fUpserts, fError>>
    /\ UNCHANGED <<pollVars, fwrVars, credVars, allVars, aggVars, metVars, csvVars>>

\* await apiClient.createStatReport(fReport, yesterday): the request is sent.
NaverCreateRequest ==
    /\ fPlatform = "naver"
    /\ fPc = "create"
    /\ fCreated' = Append(fCreated, fReport)
    /\ fInFlight' = fInFlight \cup {"create"}
    /\ fPc' = "createSent"
    /\ UNCHANGED <<fPlatform, fDates, fTypesFailed, fAggregated, fHasNext, fIdx, fReport, fDownloaded, fSawFailed,
                   fInsight, fPages, fProduced, fUpserts, fError>>
    /\ UNCHANGED <<pollVars, fwrVars, credVars, allVars, aggVars, metVars, csvVars>>

\* createStatReport answers: it rethrows a request error; a body without
\* reportJobId and id makes fetchNaverData throw; otherwise
\* processStatReport(jobId) starts.
NaverCreateResponseNoAwait ==
    /\ fPlatform = "naver"
    /\ fPc = "createSent"
    /\ fInFlight' = fInFlight \ {"create"}
    /\ IF fReport = "AD"
       THEN fReport' = "AD_CONVERSION" /\ fPc' = "create"
       ELSE fReport' = fReport /\ fPc' = "aggregate"
    /\ UNCHANGED <<fPlatform, fDates, fTypesFailed, fAggregated, fHasNext, fIdx, fCreated, fDownloaded, fSawFailed,
                   fInsight, fPages, fProduced, fUpserts, fError>>
    /\ UNCHANGED <<pollVars, fwrVars, credVars, allVars, aggVars, metVars, csvVars>>

NaverCreateResponse ==
    /\ fPlatform = "naver"
    /\ fPc = "createSent"
    /\ fInFlight' = fInFlight \ {"create"}
    /\ \E outcome \in {"jobId", "noJobId", "requestFailed"} :
         IF outcome = "jobId"
         THEN /\ PollStart
              /\ fPc' = "polling"
              /\ UNCHANGED fError
         ELSE /\ Rejects(outcome)
              /\ UNCHANGED pollVars
    /\ UNCHANGED <<fPlatform, fDates, fTypesFailed, fAggregated, fHasNext, fIdx, fReport, fCreated, fDownloaded, fSawFailed,
                   fInsight, fPages, fProduced, fUpserts>>
    /\ UNCHANGED <<fwrVars, credVars, allVars, aggVars, metVars, csvVars>>

\* processStatReport threw (timeout, download precondition, download error):
\* nothing in fetchNaverData catches it before the outer catch, which rethrows.
NaverReportThrown ==
    /\ fPlatform = "naver"
    /\ fPc = "polling"
    /\ pollPc = "thrown"
    /\ Rejects(pollError.kind)
    /\ fSawFailed' = (fSawFailed \/ nFailed > 0)
    /\ PollEnd
    /\ UNCHANGED <<fPlatform, fDates, fTypesFailed, fAggregated, fHasNext, fIdx, fReport, fCreated, fDownloaded, fInFlight,
                   fInsight, fPages, fProduced, fUpserts>>
    /\ UNCHANGED <<fwrVars, credVars, allVars, aggVars, metVars, csvVars>>

\* processStatReport returned the parsed CSV: transform it; after the AD
\* report sleep(API_DELAY) and go on to AD_CONVERSION, after AD_CONVERSION
\* go on to the aggregation.
NaverReportParsed ==
    /\ fPlatform = "naver"
    /\ fPc = "polling"
    /\ pollPc = "parsed"
    /\ fDownloaded' = fDownloaded \cup {[report |-> fReport,
                                         complete |-> reportData.status \in {"COMPLETE", "BUILT"}]}
    /\ fSawFailed' = (fSawFailed \/ nFailed > 0)
    /\ IF fReport = "AD"
       THEN fReport' = "AD_CONVERSION" /\ fPc' = "create"
       ELSE fReport' = fReport /\ fPc' = "aggregate"
    /\ PollEnd
    /\ UNCHANGED <<fPlatform, fDates, fTypesFailed, fAggregated, fHasNext, fIdx, fCreated, fInFlight, fInsight, fPages,
                   fProduced, fUpserts, fError>>
    /\ UNCHANGED <<fwrVars, credVars, allVars, aggVars, metVars, csvVars>>

\* aggregateReports and createSupabaseData on what the two reports held.
NaverAggregate ==
    /\ fPlatform = "naver"
    /\ fPc = "aggregate"
    /\ \E adData \in SeqsUpTo(AdRecords, 1), conversionData \in SeqsUpTo(ConvRecords, 1),
          campaignTypeMap \in (IF fTypesFailed THEN {NoTypes} ELSE TypeMaps) :
         LET result == AggregateReports(adData, conversionData, campaignTypeMap)
             rows   == CreateSupabaseData(result, CurrentDate)
         IN /\ fAggregated' = [adData |-> adData, result |-> result]
            /\ fProduced' = Append(fProduced, Produced(rows))
            /\ fPc' = IF Len(rows) > 0 THEN "upsert" ELSE "resolved"
    /\ UNCHANGED <<fPlatform, fDates, fTypesFailed, fHasNext, fIdx, fReport, fCreated, fDownloaded, fInFlight,
                   fSawFailed, fInsight, fPages, fUpserts, fError>>
    /\ UNCHANGED <<pollVars, fwrVars, credVars, allVars, aggVars, metVars, csvVars>>

\* rows.length > 0: stamp the rows and send the upsert.
NaverUpsertRequest ==
    /\ fPlatform = "naver"
    /\ fPc = "upsert"
    /\ fUpserts' = Append(fUpserts, UpsertCall(Stamp(CurrentRows, NowStamp), "<pending>"))
    /\ fInFlight' = fInFlight \cup {"upsert"}
    /\ fPc' = "upsertSent"
    /\ UNCHANGED <<fPlatform, fDates, fTypesFailed, fAggregated, fHasNext, fIdx, fReport, fCreated, fDownloaded, fSawFailed,
                   fInsight, fPages, fProduced, fError>>
    /\ UNCHANGED <<pollVars, fwrVars, credVars, allVars, aggVars, metVars, csvVars>>

\* The upsert answers { data, error }; if (error) throw error.
NaverUpsertResponse ==
    /\ fPlatform = "naver"
    /\ fPc = "upsertSent"
    /\ fInFlight' = fInFlight \ {"upsert"}
    /\ \E error \in StoreErrors \cup {NoError} :
         /\ fUpserts' = [fUpserts EXCEPT ![Len(fUpserts)].error = error]
         /\ IF error # NoError
            THEN Rejects(error)
            ELSE fPc' = "resolved" /\ UNCHANGED fError
    /\ UNCHANGED <<fPlatform, fDates, fTypesFailed, fAggregated, fHasNext, fIdx, fReport, fCreated, fDownloaded, fSawFailed,
                   fInsight, fPages, fProduced>>
    /\ UNCHANGED <<pollVars, fwrVars, credVars, allVars, aggVars, metVars, csvVars>>

(* ---- fetchGoogleData (scripts/fetch-google.js) ---- *)

\* oauth2Client.getAccessToken(); no access token throws.
GoogleAuth ==
    /\ fPlatform = "google"
    /\ fPc = "auth"
    /\ \E outcome \in {"token", "noToken", "authFailed"} :
         IF outcome = "token"
         THEN fPc' = "search" /\ UNCHANGED fError
         ELSE Rejects(outcome)
    /\ UNCHANGED <<fPlatform, fDates, fTypesFailed, fAggregated, fHasNext, fIdx, fReport, fCreated, fDownloaded, fInFlight,
                   fSawFailed, fInsight, fPages, fProduced, fUpserts>>
    /\ UNCHANGED <<pollVars, fwrVars, credVars, allVars, aggVars, metVars, csvVars>>

\* aggregateData(campaigns, campaignName): null for no campaigns, else one row.
GoogleRows(date, hasRegular, hasPmax) ==
    (IF hasRegular THEN <<[date |-> date, campaign |-> "GoogleSA"]>> ELSE <<>>)
    \o
    (IF hasPmax THEN <<[date |-> date, campaign |-> "PMAX"]>> ELSE <<>>)

\* One pass of the date loop up to the upsert: the search request, the
\* split into regular and PMAX campaigns, the rows.
GoogleSearch ==
    /\ fPlatform = "google"
    /\ fPc = "search"
    /\ \E outcome \in {"ok", "httpError", "requestFailed"},
          hasRegular \in BOOLEAN, hasPmax \in BOOLEAN :
         IF outcome = "ok"
         THEN LET rows == GoogleRows(CurrentDate, hasRegular, hasPmax) IN
              /\ fProduced' = Append(fProduced, Produced(rows))
              /\ IF Len(rows) > 0
                 THEN fPc' = "upsert" /\ fIdx' = fIdx
                 ELSE NextDate("search")
              /\ UNCHANGED fError
         ELSE /\ Rejects(outcome)
              /\ UNCHANGED <<fProduced, fIdx>>
    /\ UNCHANGED <<fPlatform, fDates, fTypesFailed, fAggregated, fHasNext, fReport, fCreated, fDownloaded, fInFlight,
                   fSawFailed, fInsight, fPages, fUpserts>>
    /\ UNCHANGED <<pollVars, fwrVars, credVars, allVars, aggVars, metVars, csvVars>>

\* rows.length > 0: upsert(rows); if (error) throw error.
GoogleUpsertFirstRow ==
    /\ fPlatform = "google"
    /\ fPc = "upsert"
    /\ \E error \in StoreErrors \cup {NoError} :
         /\ fUpserts' = Append(fUpserts, UpsertCall(<<Head(CurrentRows)>>, error))
         /\ IF error # NoError
            THEN Rejects(error) /\ fIdx' = fIdx
            ELSE NextDate("search") /\ UNCHANGED fError
    /\ UNCHANGED <<fPlatform, fDates, fTypesFailed, fAggregated, fHasNext, fReport, fCreated, fDownloaded, fInFlight,
                   fSawFailed, fInsight, fPages, fProduced>>
    /\ UNCHANGED <<pollVars, fwrVars, credVars, allVars, aggVars, metVars, csvVars>>

GoogleUpsert ==
    /\ fPlatform = "google"
    /\ fPc = "upsert"
    /\ \E error \in StoreErrors \cup {NoError} :
         /\ fUpserts' = Append(fUpserts, UpsertCall(CurrentRows, error))
         /\ IF error # NoError
            THEN Rejects(error) /\ fIdx' = fIdx
            ELSE NextDate("search") /\ UNCHANGED fError
    /\ UNCHANGED <<fPlatform, fDates, fTypesFailed, fAggregated, fHasNext, fReport, fCreated, fDownloaded, fInFlight,
                   fSawFailed, fInsight, fPages, fProduced>>
    /\ UNCHANGED <<pollVars, fwrVars, credVars, allVars, aggVars, metVars, csvVars>>

(* ---- fetchGoogleData (the earlier script, one row per campaign) ---- *)

\* OAuth2 or service-account authorisation; a failure throws.
LegacyGoogleAuth ==
    /\ fPlatform = "google_legacy"
    /\ fPc = "auth"
    /\ \E outcome \in {"token", "authFailed"} :
         IF outcome = "token"
         THEN fPc' = "search" /\ UNCHANGED fError
         ELSE Rejects(outcome)
    /\ UNCHANGED <<fPlatform, fDates, fTypesFailed, fAggregated, fHasNext, fIdx, fReport, fCreated, fDownloaded, fInFlight,
                   fSawFailed, fInsight, fPages, fProduced, fUpserts>>
    /\ UNCHANGED <<pollVars, fwrVars, credVars, allVars, aggVars, metVars, csvVars>>

\* results.map(row => ({ date: yesterday, campaign, campaign_id, ... }))
LegacyGoogleRows(date, n) ==
    [i \in 1..n |-> [date |-> date, campaign |-> "campaign", campaign_id |-> i]]

LegacyGoogleSearch ==
    /\ fPlatform = "google_legacy"
    /\ fPc = "search"
    /\ \E outcome \in {"ok", "httpError", "requestFailed"}, n \in 0..MaxRows :
         IF outcome = "ok"
         THEN /\ fProduced' = Append(fProduced, Produced(LegacyGoogleRows(CurrentDate, n)))
              /\ fPc' = IF n > 0 THEN "upsert" ELSE "resolved"
              /\ UNCHANGED fError
         ELSE /\ Rejects(outcome)
              /\ UNCHANGED fProduced
    /\ UNCHANGED <<fPlatform, fDates, fTypesFailed, fAggregated, fHasNext, fIdx, fReport, fCreated, fDownloaded, fInFlight,
                   fSawFailed, fInsight, fPages, fUpserts>>
    /\ UNCHANGED <<pollVars, fwrVars, credVars, allVars, aggVars, metVars, csvVars>>

LegacyGoogleUpsert ==
    /\ fPlatform = "google_legacy"
    /\ fPc = "upsert"
    /\ \E error \in StoreErrors \cup {NoError} :
         /\ fUpserts' = Append(fUpserts, UpsertCall(CurrentRows, error))
         /\ IF error # NoError
            THEN Rejects(error)
            ELSE fPc' = "resolved" /\ UNCHANGED fError
    /\ UNCHANGED <<fPlatform, fDates, fTypesFailed, fAggregated, fHasNext, fIdx, fReport, fCreated, fDownloaded, fInFlight,
                   fSawFailed, fInsight, fPages, fProduced>>
    /\ UNCHANGED <<pollVars, fwrVars, credVars, allVars, aggVars, metVars, csvVars>>

(* ---- fetchAndUpsert (scripts/fetch-meta.js) ---- *)

\* data.map(r => ({ date: r.date_start, campaign: 'Meta', ... }))
MetaRows(date, n) == [i \in 1..n |-> [date |-> date, campaign |-> "Meta", n |-> i]]

\* fetch(url); a non-OK response throws; the rows are built from data.
MetaInsights ==
    /\ fPlatform = "meta"
    /\ fPc = "insights"
    /\ \E outcome \in {"ok", "httpError", "requestFailed"}, n \in 0..MaxRows :
         IF outcome = "ok"
         THEN /\ fProduced' = Append(fProduced, Produced(MetaRows(CurrentDate, n)))
              /\ fPc' = "upsert"
              /\ UNCHANGED fError
         ELSE /\ Rejects(outcome)
              /\ UNCHANGED fProduced
    /\ UNCHANGED <<fPlatform, fDates, fTypesFailed, fAggregated, fHasNext, fIdx, fReport, fCreated, fDownloaded, fInFlight,
                   fSawFailed, fInsight, fPages, fUpserts>>
    /\ UNCHANGED <<pollVars, fwrVars, credVars, allVars, aggVars, metVars, csvVars>>

\* The rows get updated_at; upsert(rows) is called whatever their number;
\* if (error) throw error.
MetaUpsertRetries ==
    /\ fPlatform = "meta"
    /\ fPc = "upsert"
    /\ \E error \in StoreErrors \cup {NoError} :
         /\ fUpserts' = IF error # NoError
                        THEN fUpserts \o <<UpsertCall(Stamp(CurrentRows, NowStamp), error),
                                           UpsertCall(Stamp(CurrentRows, NowStamp), NoError)>>
                        ELSE Append(fUpserts, UpsertCall(Stamp(CurrentRows, NowStamp), error))
         /\ fPc' = "resolved"
         /\ UNCHANGED fError
    /\ UNCHANGED <<fPlatform, fDates, fTypesFailed, fAggregated, fHasNext, fIdx, fReport, fCreated, fDownloaded, fInFlight,
                   fSawFailed, fInsight, fPages, fProduced>>
    /\ UNCHANGED <<pollVars, fwrVars, credVars, allVars, aggVars, metVars, csvVars>>

MetaUpsert ==
    /\ fPlatform = "meta"
    /\ fPc = "upsert"
    /\ \E error \in StoreErrors \cup {NoError} :
         /\ fUpserts' = Append(fUpserts, UpsertCall(Stamp(CurrentRows, NowStamp), error))
         /\ IF error # NoError
            THEN Rejects(error)
            ELSE fPc' = "resolved" /\ UNCHANGED fError
    /\ UNCHANGED <<fPlatform, fDates, fTypesFailed, fAggregated, fHasNext, fIdx, fReport, fCreated, fDownloaded, fInFlight,
                   fSawFailed, fInsight, fPages, fProduced>>
    /\ UNCHANGED <<pollVars, fwrVars, credVars, allVars, aggVars, metVars, csvVars>>

(* ---- fetchAndUpsertMetaAdset (scripts/fetch-meta.js) ---- *)

\* fetchAccountTimezone(): an error of fetchWithRetry is logged and dropped.
AdsetTimezone ==
    /\ fPlatform = "meta_adset"
    /\ fPc = "timezone"
    /\ fPc' = "pages"
    /\ UNCHANGED <<fPlatform, fDates, fTypesFailed, fAggregated, fHasNext, fIdx, fReport, fCreated, fDownloaded, fInFlight,
                   fSawFailed, fInsight, fPages, fProduced, fUpserts, fError>>
    /\ UNCHANGED <<pollVars, fwrVars, credVars, allVars, aggVars, metVars, csvVars>>

\* insightRows.map(row => ({ date_start, adset_id, ... }))
AdsetRows(date, n) == [i \in 1..n |-> [date_start |-> date, adset_id |-> i]]

\* One pass of while (pageUrl): fetchWithRetry(pageUrl) throws or returns a
\* page; pageUrl becomes paging.next; after the last page, no rows means
\* `continue`.
AdsetInsightsFirstPageOnly ==
    /\ fPlatform = "meta_adset"
    /\ fPc = "pages"
    /\ \E outcome \in {"page", "fetchFailed"}, n \in 0..MaxRows, hasNext \in BOOLEAN :
         /\ n <= MaxRows - fInsight
         /\ hasNext => fPages + 1 < MaxPages
         /\ IF outcome = "fetchFailed"
            THEN /\ Rejects(outcome)
                 /\ UNCHANGED <<fInsight, fPages, fProduced, fIdx, fHasNext>>
            ELSE /\ UNCHANGED fError
                 /\ IF FALSE
                    THEN /\ fInsight' = fInsight + n
                         /\ fPages' = fPages + 1
                         /\ fHasNext' = TRUE
                         /\ UNCHANGED <<fPc, fProduced, fIdx>>
                    ELSE IF fInsight + n = 0
                    THEN /\ fProduced' = Append(fProduced, Produced(<<>>))
                         /\ fInsight' = 0
                         /\ fPages' = 0
                         /\ fHasNext' = FALSE
                         /\ NextDate("pages")
                    ELSE /\ fInsight' = fInsight + n
                         /\ fPages' = fPages + 1
                         /\ fHasNext' = hasNext
                         /\ fPc' = "details"
                         /\ UNCHANGED <<fProduced, fIdx>>
    /\ UNCHANGED <<fPlatform, fDates, fTypesFailed, fAggregated, fReport, fCreated, fDownloaded, fInFlight,
                   fSawFailed, fUpserts>>
    /\ UNCHANGED <<pollVars, fwrVars, credVars, allVars, aggVars, metVars, csvVars>>

AdsetInsightsPage ==
    /\ fPlatform = "meta_adset"
    /\ fPc = "pages"
    /\ \E outcome \in {"page", "fetchFailed"}, n \in 0..MaxRows, hasNext \in BOOLEAN :
         /\ n <= MaxRows - fInsight
         /\ hasNext => fPages + 1 < MaxPages
         /\ IF outcome = "fetchFailed"
            THEN /\ Rejects(outcome)
                 /\ UNCHANGED <<fInsight, fPages, fProduced, fIdx, fHasNext>>
            ELSE /\ UNCHANGED fError
                 /\ IF hasNext
                    THEN /\ fInsight' = fInsight + n
                         /\ fPages' = fPages + 1
                         /\ fHasNext' = TRUE
                         /\ UNCHANGED <<fPc, fProduced, fIdx>>
                    ELSE IF fInsight + n = 0
                    THEN /\ fProduced' = Append(fProduced, Produced(<<>>))
                         /\ fInsight' = 0
                         /\ fPages' = 0
                         /\ fHasNext' = FALSE
                         /\ NextDate("pages")
                    ELSE /\ fInsight' = fInsight + n
                         /\ fPages' = fPages + 1
                         /\ fHasNext' = FALSE
                         /\ fPc' = "details"
                         /\ UNCHANGED <<fProduced, fIdx>>
    /\ UNCHANGED <<fPlatform, fDates, fTypesFailed, fAggregated, fReport, fCreated, fDownloaded, fInFlight,
                   fSawFailed, fUpserts>>
    /\ UNCHANGED <<pollVars, fwrVars, credVars, allVars, aggVars, metVars, csvVars>>

\* fetchAdsetDetails(adsetIds) throws or returns; then the rows are built.
AdsetDetails ==
    /\ fPlatform = "meta_adset"
    /\ fPc = "details"
    /\ \E outcome \in {"details", "fetchFailed"} :
         IF outcome = "fetchFailed"
         THEN /\ Rejects(outcome)
              /\ UNCHANGED fProduced
         ELSE /\ fProduced' = Append(fProduced, Produced(AdsetRows(CurrentDate, fInsight)))
              /\ fPc' = "upsert"
              /\ UNCHANGED fError
    /\ UNCHANGED <<fPlatform, fDates, fTypesFailed, fAggregated, fHasNext, fIdx, fReport, fCreated, fDownloaded, fInFlight,
                   fSawFailed, fInsight, fPages, fUpserts>>
    /\ UNCHANGED <<pollVars, fwrVars, credVars, allVars, aggVars, metVars, csvVars>>

\* The rows get updated_at; upsert(rows); if (error) throw error.
AdsetUpsert ==
    /\ fPlatform = "meta_adset"
    /\ fPc = "upsert"
    /\ \E error \in StoreErrors \cup {NoError} :
         /\ fUpserts' = Append(fUpserts, UpsertCall(Stamp(CurrentRows, NowStamp), error))
         /\ IF error # NoError
            THEN /\ Rejects(error)
                 /\ UNCHANGED <<fIdx, fInsight, fPages>>
            ELSE /\ NextDate("pages")
                 /\ fInsight' = 0
                 /\ fPages' = 0
                 /\ UNCHANGED fError
    /\ UNCHANGED <<fPlatform, fDates, fTypesFailed, fAggregated, fHasNext, fReport, fCreated, fDownloaded, fInFlight,
                   fSawFailed, fProduced>>
    /\ UNCHANGED <<pollVars, fwrVars, credVars, allVars, aggVars, metVars, csvVars>>

FetchNext ==
    \/ NaverTypesRequest
    \/ NaverTypesResponse
    \/ NaverCreateRequest
    \/ NaverCreateResponse
    \/ PollSleep
    \/ PollTimeout
    \/ PollStatusResponse
    \/ PollTransportError
    \/ DownloadRejected
    \/ DownloadRequest
    \/ NaverReportThrown
    \/ NaverReportParsed
    \/ NaverAggregate
    \/ NaverUpsertRequest
    \/ NaverUpsertResponse
    \/ GoogleAuth
    \/ GoogleSearch
    \/ GoogleUpsert
    \/ LegacyGoogleAuth
    \/ LegacyGoogleSearch
    \/ LegacyGoogleUpsert
    \/ MetaInsights
    \/ MetaUpsert
    \/ AdsetTimezone
    \/ AdsetInsightsPage
    \/ AdsetDetails
    \/ AdsetUpsert

-----------------------------------------------------------------------------
(* Metric calculations: calculateMetrics / calculateAllMetrics of          *)
(* fetch-naver-dok.js and the insight row mappings of the Meta scripts     *)

\* A number is kept as a fraction of integers.  den = 0 is what a division
\* by zero leaves in JavaScript: NaN for 0/0 and Infinity for n/0.
Num(n) == [num |-> n, den |-> 1]
NaN == [num |-> 0, den |-> 0]
Infinity == [num |-> 1, den |-> 0]
IsFinite(x) == x.den # 0
IsZero(x) == x.den # 0 /\ x.num = 0

\* a / b of two finite non-negative numbers
Div(a, b) ==
    IF b.num = 0
    THEN IF a.num = 0 THEN NaN ELSE Infinity
    ELSE [num |-> a.num * b.den, den |-> a.den * b.num]

\* a * b
Mul(a, b) == [num |-> a.num * b.num, den |-> a.den * b.den]

\* x > 0
Gt0(x) == IsFinite(x) /\ x.num > 0

\* the truthiness of a number: 0 and NaN are falsy
Truthy(x) == x.num # 0

Pow10(k) == IF k = 4 THEN 10000 ELSE IF k = 2 THEN 100 ELSE 1

\* Number(x.toFixed(digits)): the nearest multiple of 10^-digits, the
\* larger one of two; NaN and Infinity stay what they are.
ToFixed(x, digits) ==
    IF ~IsFinite(x)
    THEN x
    ELSE [num |-> (2 * x.num * Pow10(digits) + x.den) \div (2 * x.den),
          den |-> Pow10(digits)]

\* calculateMetrics
ctr(clicks, impressions) ==
    IF Gt0(impressions) THEN Div(clicks, impressions) ELSE Num(0)

cpc(spend, clicks) ==
    IF Gt0(clicks) THEN Div(spend, clicks) ELSE Num(0)

cvr(conversions, clicks) ==
    IF Gt0(clicks) THEN Div(conversions, clicks) ELSE Num(0)

cpm(spend, impressions) ==
    IF Gt0(impressions) THEN Div(spend, Div(impressions, Num(1000))) ELSE Num(0)

cpaUnguarded(spend, conversions) ==
    Div(spend, conversions)

cpa(spend, conversions) ==
    IF Gt0(conversions) THEN Div(spend, conversions) ELSE Num(0)

aov(conversionValue, conversions) ==
    IF Gt0(conversions) THEN Div(conversionValue, conversions) ELSE Num(0)

roas(conversionValue, spend) ==
    IF Gt0(spend) THEN Div(conversionValue, spend) ELSE Num(0)

avgRank(sumAdRank, impressions) ==
    IF Gt0(impressions) THEN Div(sumAdRank, impressions) ELSE Num(0)

\* The eight calls calculateAllMetrics makes, before rounding.
MetricCalls(data) ==
    [ctr      |-> ctr(Num(data.clicks), Num(data.impressions)),
     cpc      |-> cpc(Num(data.spend), Num(data.clicks)),
     cvr      |-> cvr(Num(data.conversion), Num(data.clicks)),
     cpm      |-> cpm(Num(data.spend), Num(data.impressions)),
     cpa      |-> cpa(Num(data.spend), Num(data.conversion)),
     aov      |-> aov(Num(data.conversionValue), Num(data.conversion)),
     roas     |-> roas(Num(data.conversionValue), Num(data.spend)),
     rank_avg |-> avgRank(Num(data.sumAdRank), Num(data.impressions))]

\* NaverDataTransformer.calculateAllMetrics(data)
CalculateAllMetrics(data) ==
    LET m == MetricCalls(data) IN
    [ctr      |-> ToFixed(m.ctr, 4),
     cpc      |-> ToFixed(m.cpc, 2),
     cvr      |-> ToFixed(m.cvr, 4),
     cpm      |-> ToFixed(m.cpm, 2),
     cpa      |-> ToFixed(m.cpa, 2),
     aov      |-> ToFixed(m.aov, 2),
     roas     |-> ToFixed(m.roas, 4),
     rank_avg |-> ToFixed(m.rank_avg, 2)]

\* The row fetchAndUpsert of fetch-meta.js builds from one insight r.  The
\* purchase entries of cost_per_action_type are a sequence: empty when the
\* response has none.
MetaRowMapping(r) ==
    LET spend           == Num(r.spend)
        impressions     == Num(r.impressions)
        linkClicks      == Num(r.clicks)
        conversionCount == Num(r.conversion)
        conversionValue == Num(r.conversionValue)
    IN  [campaign |-> "Meta",
         spend |-> spend, impressions |-> impressions, clicks |-> linkClicks,
         conversion |-> conversionCount, conversion_value |-> conversionValue,
         cpa  |-> IF Len(r.cpaEntry) > 0
                  THEN Num(r.cpaEntry[1])
                  ELSE IF Truthy(conversionCount)
                       THEN Div(spend, conversionCount) ELSE Num(0),
         ctr  |-> IF Truthy(impressions) THEN Div(linkClicks, impressions) ELSE Num(0),
         cpc  |-> IF Truthy(linkClicks) THEN Div(spend, linkClicks) ELSE Num(0),
         cvr  |-> IF Truthy(linkClicks) THEN Div(conversionCount, linkClicks) ELSE Num(0),
         cpm  |-> IF Truthy(impressions)
                  THEN Mul(Div(spend, impressions), Num(1000)) ELSE Num(0),
         roas |-> IF Truthy(spend) THEN Div(conversionValue, spend) ELSE Num(0),
         aov  |-> IF Truthy(conversionCount)
                  THEN Div(conversionValue, conversionCount) ELSE Num(0)]

\* The row fetchAndUpsert of fetch-meta-dok.js builds: toNumber() makes 0
\* of a missing entry, and the vendor's CPA is taken when it is positive.
MetaDokRowMapping(r) ==
    LET spend           == Num(r.spend)
        impressions     == Num(r.impressions)
        linkClicks      == Num(r.clicks)
        conversionCount == Num(r.conversion)
        conversionValue == Num(r.conversionValue)
        cpaRaw          == IF Len(r.cpaEntry) > 0 THEN Num(r.cpaEntry[1]) ELSE Num(0)
    IN  [campaign |-> "Meta",
         spend |-> spend, impressions |-> impressions, clicks |-> linkClicks,
         conversion |-> conversionCount, conversion_value |-> conversionValue,
         cpa  |-> IF Gt0(cpaRaw)
                  THEN cpaRaw
                  ELSE IF Gt0(conversionCount)
                       THEN Div(spend, conversionCount) ELSE Num(0),
         ctr  |-> IF Gt0(impressions) THEN Div(linkClicks, impressions) ELSE Num(0),
         cpc  |-> IF Gt0(linkClicks) THEN Div(spend, linkClicks) ELSE Num(0),
         cvr  |-> IF Gt0(linkClicks) THEN Div(conversionCount, linkClicks) ELSE Num(0),
         cpm  |-> IF Gt0(impressions)
                  THEN Mul(Div(spend, impressions), Num(1000)) ELSE Num(0),
         roas |-> IF Gt0(spend) THEN Div(conversionValue, spend) ELSE Num(0),
         aov  |-> IF Gt0(conversionCount)
                  THEN Div(conversionValue, conversionCount) ELSE Num(0)]

\* The row of the earlier Meta script (unnamed/part_000): clicks is r.clicks
\* and the purchase columns are named purchase / purchase_value.
LegacyMetaRowMapping(r) ==
    LET spend         == Num(r.spend)
        impressions   == Num(r.impressions)
        clicks        == Num(r.clicks)
        purchaseCount == Num(r.conversion)
        purchaseValue == Num(r.conversionValue)
    IN  [campaign |-> "daily-auto-fetch",
         spend |-> spend, impressions |-> impressions, clicks |-> clicks,
         purchase |-> purchaseCount, purchase_value |-> purchaseValue,
         cpa  |-> IF Len(r.cpaEntry) > 0
                  THEN Num(r.cpaEntry[1])
                  ELSE IF Truthy(purchaseCount)
                       THEN Div(spend, purchaseCount) ELSE Num(0),
         ctr  |-> IF Truthy(impressions) THEN Div(clicks, impressions) ELSE Num(0),
         cpc  |-> IF Truthy(clicks) THEN Div(spend, clicks) ELSE Num(0),
         cvr  |-> IF Truthy(clicks) THEN Div(purchaseCount, clicks) ELSE Num(0),
         cpm  |-> IF Truthy(impressions)
                  THEN Mul(Div(spend, impressions), Num(1000)) ELSE Num(0),
         roas |-> IF Truthy(spend) THEN Div(purchaseValue, spend) ELSE Num(0),
         aov  |-> IF Truthy(purchaseCount)
                  THEN Div(purchaseValue, purchaseCount) ELSE Num(0)]

\* The raw counts: every combination of small non-negative values, with
\* or without a purchase entry in cost_per_action_type.
MetricInputs ==
    [impressions     : 0..MaxMetric,
     clicks          : 0..MaxMetric,
     spend           : 0..MaxMetric,
     conversion      : 0..MaxMetric,
     conversionValue : 0..MaxMetric,
     sumAdRank       : 0..MaxMetric,
     cpaEntry        : {<<>>} \cup { <<v>> : v \in 0..MaxMetric }]

MetInit ==
    /\ mPc = "input"
    /\ mIn \in MetricInputs
    /\ mRaw = NoValue
    /\ mOut = NoValue

\* calculateAllMetrics(result.powerlink) / (result.brand)
NaverMetrics ==
    /\ mPc = "input"
    /\ mRaw' = MetricCalls(mIn)
    /\ mOut' = CalculateAllMetrics(mIn)
    /\ mPc' = "naver"
    /\ UNCHANGED mIn
    /\ UNCHANGED <<pollVars, fwrVars, credVars, allVars, aggVars, fetchVars, csvVars>>

\* data.map(r => ...) of fetch-meta.js on one insight
MetaMapRow ==
    /\ mPc = "input"
    /\ mOut' = MetaRowMapping(mIn)
    /\ mPc' = "meta"
    /\ UNCHANGED <<mIn, mRaw>>
    /\ UNCHANGED <<pollVars, fwrVars, credVars, allVars, aggVars, fetchVars, csvVars>>

\* data.map(r => ...) of fetch-meta-dok.js on one insight
MetaDokMapRow ==
    /\ mPc = "input"
    /\ mOut' = MetaDokRowMapping(mIn)
    /\ mPc' = "meta_dok"
    /\ UNCHANGED <<mIn, mRaw>>
    /\ UNCHANGED <<pollVars, fwrVars, credVars, allVars, aggVars, fetchVars, csvVars>>

\* data.map(r => ...) of the earlier Meta script on one insight
LegacyMetaMapRow ==
    /\ mPc = "input"
    /\ mOut' = LegacyMetaRowMapping(mIn)
    /\ mPc' = "meta_legacy"
    /\ UNCHANGED <<mIn, mRaw>>
    /\ UNCHANGED <<pollVars, fwrVars, credVars, allVars, aggVars, fetchVars, csvVars>>

MetNext ==
    \/ NaverMetrics
    \/ MetaMapRow
    \/ MetaDokMapRow
    \/ LegacyMetaMapRow

-----------------------------------------------------------------------------
(* Report text: parseCSV and NaverDataTransformer.transformAdData /        *)
(* transformConversionData of fetch-naver-dok.js                           *)

\* A report text is its lines ('\n' between them), a line is its fields
\* ('\t' between them), and a field is one of three strings without tab
\* or newline: the empty one, a blank one and a number.
Tokens == {"", " ", "7"}

\* whitespace only
IsBlank(tok) == tok \in {"", " "}

\* String.prototype.trim() on a field
TrimField(tok) == IF IsBlank(tok) THEN "" ELSE tok

FieldCounts == {1} \cup (12..MaxFields)

\* A line of n fields: its first and last fields vary, the others hold
\* a number.
LineOf(n, first, last) ==
    [k \in 1..n |-> IF k = 1 THEN first ELSE IF k = n THEN last ELSE "7"]

Lines ==
    { LineOf(n, first, last) :
        n \in FieldCounts, first \in Tokens, last \in {"", "7"} }

Texts == UNION { [1..n -> Lines] : n \in 1..MaxLines }

DropLast(s) == SubSeq(s, 1, Len(s) - 1)

\* csvText.trim(), front: leading blanks, tabs and newlines go, that is
\* the blank fields and the separators after them up to the first field
\* that holds something.  <<>> is the empty text.
RECURSIVE TrimStart(_)
TrimStart(lines) ==
    IF lines = <<>>
    THEN <<>>
    ELSE LET line == Head(lines) IN
         IF ~IsBlank(line[1])
         THEN lines
         ELSE IF Len(line) > 1
              THEN TrimStart(<<Tail(line)>> \o Tail(lines))
              ELSE TrimStart(Tail(lines))

\* csvText.trim(), back
RECURSIVE TrimEnd(_)
TrimEnd(lines) ==
    IF lines = <<>>
    THEN <<>>
    ELSE LET line == lines[Len(lines)] IN
         IF ~IsBlank(line[Len(line)])
         THEN lines
         ELSE IF Len(line) > 1
              THEN TrimEnd(DropLast(lines) \o <<DropLast(line)>>)
              ELSE TrimEnd(DropLast(lines))

\* csvText.trim().split('\n'), each line split at the tabs: the empty text
\* splits into one line of one empty field.
SplitLines(csvText) ==
    LET trimmed == TrimEnd(TrimStart(csvText)) IN
    IF trimmed = <<>> THEN << <<"">> >> ELSE trimmed

parseCSVKeepsAll(csvText) ==
    LET lines == SplitLines(csvText) IN
    [i \in DOMAIN lines |-> [k \in DOMAIN lines[i] |-> TrimField(lines[i][k])]]

\* parseCSV(csvText): split, trim every field, keep the lines whose first
\* field is not empty.
parseCSV(csvText) ==
    LET lines == SplitLines(csvText)
        rows  == [i \in DOMAIN lines |->
                    [k \in DOMAIN lines[i] |-> TrimField(lines[i][k])]]
    IN  SelectSeq(rows, LAMBDA values : Len(values) > 0 /\ values[1] # "")

\* parseInt(v) || 0 and parseFloat(v) || 0 on a field
ParseNumber(v) == IF v = "7" THEN 7 ELSE 0

\* row[fields.X], fields counted from 0
Field(row, index) == row[index + 1]

AD_MIN_COLUMNS   == 14
CONV_MIN_COLUMNS == 13

\* NaverDataTransformer.transformAdData(csvData)
transformAdData(csvData) ==
    LET kept == SelectSeq(csvData, LAMBDA row : Len(row) >= AD_MIN_COLUMNS) IN
    [i \in DOMAIN kept |->
        [date              |-> Field(kept[i], 0),
         customerId        |-> Field(kept[i], 1),
         campaignId        |-> Field(kept[i], 2),
         adgroupId         |-> Field(kept[i], 3),
         keywordId         |-> Field(kept[i], 4),
         adId              |-> Field(kept[i], 5),
         businessChannelId |-> Field(kept[i], 6),
         mediaCode         |-> Field(kept[i], 7),
         pcMobileType      |-> Field(kept[i], 8),
         impressions       |-> ParseNumber(Field(kept[i], 9)),
         clicks            |-> ParseNumber(Field(kept[i], 10)),
         cost              |-> ParseNumber(Field(kept[i], 11)),
         sumAdRank         |-> ParseNumber(Field(kept[i], 12)),
         viewCount         |-> ParseNumber(Field(kept[i], 13))]]

\* NaverDataTransformer.transformConversionData(csvData)
transformConversionData(csvData) ==
    LET kept == SelectSeq(csvData, LAMBDA row : Len(row) >= CONV_MIN_COLUMNS) IN
    [i \in DOMAIN kept |->
        [date              |-> Field(kept[i], 0),
         customerId        |-> Field(kept[i], 1),
         campaignId        |-> Field(kept[i], 2),
         adgroupId         |-> Field(kept[i], 3),
         keywordId         |-> Field(kept[i], 4),
         adId              |-> Field(kept[i], 5),
         businessChannelId |-> Field(kept[i], 6),
         mediaCode         |-> Field(kept[i], 7),
         pcMobileType      |-> Field(kept[i], 8),
         conversionMethod  |-> Field(kept[i], 9),
         conversionType    |-> Field(kept[i], 10),
         conversionCount   |-> ParseNumber(Field(kept[i], 11)),
         conversionValue   |-> ParseNumber(Field(kept[i], 12))]]

CsvInit ==
    /\ cPc = "text"
    /\ cType \in {"AD", "AD_CONVERSION"}
    /\ cText \in Texts
    /\ cRows = <<>>
    /\ cRecords = <<>>

\* processStatReport: return parseCSV(csvData)
CsvParse ==
    /\ cPc = "text"
    /\ cRows' = parseCSV(cText)
    /\ cPc' = "parsed"
    /\ UNCHANGED <<cType, cText, cRecords>>
    /\ UNCHANGED <<pollVars, fwrVars, credVars, allVars, aggVars, fetchVars, metVars>>

\* fetchNaverData: transformAdData(adCsvData)
CsvTransformAd ==
    /\ cPc = "parsed"
    /\ cType = "AD"
    /\ cRecords' = transformAdData(cRows)
    /\ cPc' = "records"
    /\ UNCHANGED <<cType, cText, cRows>>
    /\ UNCHANGED <<pollVars, fwrVars, credVars, allVars, aggVars, fetchVars, metVars>>

\* fetchNaverData: transformConversionData(convCsvData)
CsvTransformConversion ==
    /\ cPc = "parsed"
    /\ cType = "AD_CONVERSION"
    /\ cRecords' = transformConversionData(cRows)
    /\ cPc' = "records"
    /\ UNCHANGED <<cType, cText, cRows>>
    /\ UNCHANGED <<pollVars, fwrVars, credVars, allVars, aggVars, fetchVars, metVars>>

CsvNext ==
    \/ CsvParse
    \/ CsvTransformAd
    \/ CsvTransformConversion

-----------------------------------------------------------------------------
(* Specifications                                                           *)

\* A component that is not running.
PollIdle ==
    /\ pollPc = "idle"
    /\ attempts = 0
    /\ sleeps = 0
    /\ statusRequests = 0
    /\ nPending = 0
    /\ nTransport = 0
    /\ nFailed = 0
    /\ lastResp = NoValue
    /\ reportData = NoValue
    /\ pollError = NoValue
    /\ downloadRequests = 0

FwrIdle ==
    /\ maxRetries = DefaultMaxRetries
    /\ attempt = 1
    /\ fwrPc = "idle"
    /\ fwrRequests = 0
    /\ fwrWaits = <<>>
    /\ fwrHistory = <<>>
    /\ fwrResult = NoValue
    /\ fwrError = NoValue

AllIdle ==
    /\ apVariant = "three"
    /\ apPc = "idle"
    /\ apNext = 1
    /\ apCalls = <<>>
    /\ apThrown = {}
    /\ apResults = [p \in PlatformSet("three") |->
                       [success |-> FALSE, error |-> NoError, count |-> 0]]
    /\ apStats = "none"
    /\ apExit = NoExit

AggIdle ==
    /\ agAd = <<>>
    /\ agConv = <<>>
    /\ agTypeMap = [k \in {} |-> "TEXT_45"]
    /\ agPc = "idle"
    /\ agMerges = 0
    /\ agStats = EmptyMap
    /\ agResult = InitialCohorts
    /\ agRows = <<>>

FetchIdle ==
    /\ fTypesFailed = FALSE
    /\ fAggregated = NoValue
    /\ fHasNext = FALSE
    /\ fPlatform = "none"
    /\ fPc = "idle"
    /\ fDates = <<>>
    /\ fIdx = 1
    /\ fReport = "none"
    /\ fCreated = <<>>
    /\ fDownloaded = {}
    /\ fInFlight = {}
    /\ fSawFailed = FALSE
    /\ fInsight = 0
    /\ fPages = 0
    /\ fProduced = <<>>
    /\ fUpserts = <<>>
    /\ fError = NoError

MetIdle ==
    /\ mPc = "idle"
    /\ mIn = NoValue
    /\ mRaw = NoValue
    /\ mOut = NoValue

CsvIdle ==
    /\ cPc = "idle"
    /\ cType = "none"
    /\ cText = <<>>
    /\ cRows = <<>>
    /\ cRecords = <<>>

CredIdle ==
    /\ script = "none"
    /\ mode = "standalone"
    /\ env = {}
    /\ credPc = "idle"
    /\ netCalls = 0
    /\ exitCode = NoExit
    /\ recorded = [success |-> FALSE, error |-> NoError]

InitPoll  == PollInit /\ FwrIdle /\ CredIdle /\ AllIdle /\ AggIdle /\ FetchIdle /\ MetIdle /\ CsvIdle
InitRetry == PollIdle /\ FwrInit /\ CredIdle /\ AllIdle /\ AggIdle /\ FetchIdle /\ MetIdle /\ CsvIdle
InitCred  == PollIdle /\ FwrIdle /\ CredInit /\ AllIdle /\ AggIdle /\ FetchIdle /\ MetIdle /\ CsvIdle
InitAll   == PollIdle /\ FwrIdle /\ CredIdle /\ AllInit /\ AggIdle /\ FetchIdle /\ MetIdle /\ CsvIdle

SpecPoll  == InitPoll /\ [][PollNext]_vars
SpecRetry == InitRetry /\ [][FwrNext]_vars
SpecCred  == InitCred /\ [][CredNext]_vars
InitAgg   == PollIdle /\ FwrIdle /\ CredIdle /\ AllIdle /\ AggInit /\ FetchIdle /\ MetIdle /\ CsvIdle
SpecAll   == InitAll /\ [][AllNext]_vars
SpecAgg   == InitAgg /\ [][AggNext]_vars
InitFetch == PollIdle /\ FwrIdle /\ CredIdle /\ AllIdle /\ AggIdle /\ FetchInit /\ MetIdle /\ CsvIdle
SpecFetch == InitFetch /\ [][FetchNext]_vars
InitMetrics == PollIdle /\ FwrIdle /\ CredIdle /\ AllIdle /\ AggIdle /\ FetchIdle /\ MetInit /\ CsvIdle
SpecMetrics == InitMetrics /\ [][MetNext]_vars
InitCsv == PollIdle /\ FwrIdle /\ CredIdle /\ AllIdle /\ AggIdle /\ FetchIdle /\ MetIdle /\ CsvInit
SpecCsv == InitCsv /\ [][CsvNext]_vars

-----------------------------------------------------------------------------
(* Properties of waitForReportCompletion and downloadCSV (SpecPoll)         *)

\* C1: a status response FAILED makes polling raise at once, with an error
\* that carries the status payload; nothing is requested after it.
C1_FailedRaisesImmediately ==
    nFailed > 0 =>
        /\ pollPc = "thrown"
        /\ pollError.kind = "failed"
        /\ lastResp.kind = "data"
        /\ lastResp.status = "FAILED"
        /\ statusRequests = lastResp.n

\* C2: once a status response says COMPLETE or BUILT, polling has returned
\* exactly that response, at the attempt it arrived on, and the number of
\* status requests equals that attempt number: one request per earlier
\* attempt and none after.
C2_ReturnsAtFirstComplete ==
    /\ (lastResp.kind = "data" /\ lastResp.status \in {"COMPLETE", "BUILT"}) =>
          /\ pollPc \in {"download", "parsed", "thrown"}
          /\ reportData = lastResp
          /\ pollError.kind # "timeout"
    /\ reportData # NoValue =>
          /\ reportData.status \in {"COMPLETE", "BUILT"}
          /\ reportData.n = statusRequests
          /\ attempts = statusRequests
          /\ nPending + nTransport + nFailed = statusRequests - 1

C2_Witness ==
    /\ pollPc = "download"
    /\ reportData # NoValue
    /\ reportData.status = "COMPLETE"
    /\ statusRequests = 3
    /\ nPending = 2

\* C3: never more than MAX_ATTEMPTS status requests; a timeout comes after
\* exactly MAX_ATTEMPTS requests, and MAX_ATTEMPTS pending responses leave
\* nothing but the timeout.
C3_TimeoutAfterMaxAttempts ==
    /\ statusRequests <= 30
    /\ sleeps <= 30
    /\ pollError.kind = "timeout" => statusRequests = 30
    /\ (nPending = 30 /\ pollPc # "guard") =>
          (pollPc = "thrown" /\ pollError.kind = "timeout")

C3_Witness ==
    /\ pollPc = "thrown"
    /\ pollError.kind = "timeout"
    /\ nPending = 30
    /\ statusRequests = 30

\* C4: a status request that throws is not propagated: the loop goes on
\* and the only error that can follow is the timeout.  It uses up one
\* attempt like any response that does not end the loop; with transport
\* errors and pending responses only, the timeout comes exactly when
\* their number is MAX_ATTEMPTS.
C4_TransportErrorConsumesAttempt ==
    /\ lastResp.kind = "transport" =>
          /\ pollPc \in {"guard", "status", "thrown"}
          /\ pollPc = "thrown" => pollError.kind = "timeout"
    /\ pollError.kind # "transport"
    /\ reportData = NoValue => nTransport + nPending + nFailed = statusRequests
    /\ pollPc = "guard" => attempts = nTransport + nPending + nFailed
    /\ nFailed = 0 =>
          /\ pollError.kind = "timeout" => nTransport + nPending = 30
          /\ (nTransport + nPending = 30 /\ pollPc # "guard") =>
                (pollPc = "thrown" /\ pollError.kind = "timeout")

C4_Witness ==
    /\ pollPc = "thrown"
    /\ pollError.kind = "timeout"
    /\ nFailed = 0
    /\ nTransport = 12
    /\ nPending = 18

\* C9: a returned payload whose downloadUrl is absent or empty makes
\* processStatReport fail, and no download request has been made.
C9_NoUrlNoDownload ==
    /\ pollError.kind = "nourl" => downloadRequests = 0
    /\ (reportData # NoValue /\ reportData.downloadUrl \in {NoUrl, ""}) =>
          /\ downloadRequests = 0
          /\ pollPc \in {"download", "thrown"}
          /\ pollPc = "thrown" => pollError.kind = "nourl"

C9_Witness ==
    /\ pollPc = "thrown"
    /\ pollError.kind = "nourl"
    /\ reportData.status = "BUILT"
    /\ reportData.downloadUrl = ""

-----------------------------------------------------------------------------
(* Properties of fetchWithRetry (SpecRetry)                                 *)

\* A response is a rate-limit error: non-OK with code 4, 17, 32 or 613, or
\* flagged is_transient.
RateLimited(h) ==
    /\ h.kind = "http"
    /\ (h.code \in {4, 17, 32, 613} \/ h.is_transient)

NonRetryable(h) ==
    /\ h.kind = "http"
    /\ h.code \notin {4, 17, 32, 613}
    /\ ~h.is_transient

\* C5: a non-OK response with a code that is not retryable makes the call
\* raise at once: it is the last request, and no wait follows it.
C5_NonRetryableRaisesAtOnce ==
    \A i \in 1..Len(fwrHistory) :
        NonRetryable(fwrHistory[i]) =>
            /\ fwrPc = "thrown"
            /\ fwrError.kind = "http"
            /\ Len(fwrHistory) = i
            /\ Len(fwrWaits) < i

\* C6: with maxRetries = 3, [rate-limit, rate-limit, success] returns the
\* success payload after the waits 30000 and 60000; the wait after a
\* rate-limit error on attempt i is 30000 * 2^(i-1); an OK response is the
\* last request of the call.
C6_BackoffThenSuccess ==
    /\ ( /\ maxRetries = 3
         /\ Len(fwrHistory) = 3
         /\ RateLimited(fwrHistory[1])
         /\ RateLimited(fwrHistory[2])
         /\ fwrHistory[3].kind = "ok"
         /\ fwrHistory[3].body # BadJson ) =>
            /\ fwrPc = "returned"
            /\ fwrResult = [kind |-> "json", body |-> fwrHistory[3].body]
            /\ fwrWaits = <<30000, 60000>>
            /\ fwrRequests = 3
    /\ \A i \in 1..Len(fwrWaits) :
          RateLimited(fwrHistory[i]) =>
              fwrWaits[i] = 30000 * Pow2(i - 1)
    /\ \A i \in 1..Len(fwrHistory) :
          fwrHistory[i].kind = "ok" =>
              /\ i = Len(fwrHistory)
              /\ fwrRequests = i
              /\ fwrPc \in {"returned", "thrown"}
              /\ fwrPc = "thrown" => fwrError.kind = "parse"

C6_Witness ==
    /\ maxRetries = 3
    /\ fwrPc = "returned"
    /\ Len(fwrHistory) = 3
    /\ RateLimited(fwrHistory[1])
    /\ RateLimited(fwrHistory[2])
    /\ fwrWaits = <<30000, 60000>>

AllRateLimited == \A i \in 1..Len(fwrHistory) : RateLimited(fwrHistory[i])

\* C7: at most maxRetries requests per call; when every response is a
\* rate-limit error the call raises on the maxRetries-th request, and the
\* number of waits is maxRetries - 1: none after the last request.
C7_AtMostMaxRetriesRequests ==
    /\ fwrRequests <= maxRetries
    /\ Len(fwrHistory) = fwrRequests
    /\ (maxRetries > 0 /\ AllRateLimited /\ Len(fwrHistory) = maxRetries) =>
          /\ fwrPc = "thrown"
          /\ fwrError.kind = "http"
          /\ Len(fwrWaits) = maxRetries - 1

C7_Witness ==
    /\ maxRetries = 3
    /\ AllRateLimited
    /\ fwrRequests = 3
    /\ fwrPc = "thrown"

\* C8: after a network-level failure on attempt i, the call waits 30000 ms
\* and goes on if i < maxRetries; on attempt maxRetries it rejects with the
\* underlying error and has not waited after the request.
C8_NetworkFailureRetry ==
    \A i \in 1..Len(fwrHistory) :
        fwrHistory[i].kind = "network" =>
            IF i < maxRetries
            THEN /\ Len(fwrWaits) >= i
                 /\ fwrWaits[i] = 30000
                 /\ (Len(fwrHistory) = i => fwrPc = "try" /\ attempt = i + 1)
            ELSE /\ fwrPc = "thrown"
                 /\ fwrError = [kind |-> "network", id |-> fwrHistory[i].id]
                 /\ Len(fwrWaits) = i - 1

C8_Witness ==
    /\ maxRetries = 3
    /\ Len(fwrHistory) = 3
    /\ fwrHistory[1].kind = "network"
    /\ fwrHistory[3].kind = "network"
    /\ fwrPc = "thrown"
    /\ fwrWaits[1] = 30000

-----------------------------------------------------------------------------
(* Properties of the credential checks (SpecCred)                           *)

\* C10: a run with a required credential missing ends as a failure (exit
\* code not 0 when standalone; the process exited or the platform is
\* recorded as failed under fetchAllPlatforms) and makes no network call.
C10_MissingCredentialFatal ==
    (credPc = "end" /\ env # RequiredVars(script)) =>
        /\ netCalls = 0
        /\ IF mode = "standalone"
           THEN exitCode >= 1
           ELSE \/ exitCode >= 1
                \/ (~recorded.success /\ recorded.error # NoError)

-----------------------------------------------------------------------------
(* Properties of fetchAllPlatforms (SpecAll)                                *)

\* C11: the platform fetches are called once each, in the fixed order; a
\* fetch that throws is recorded as success = false with its error, and
\* the platforms after it are still called.
C11_EveryPlatformAttempted ==
    /\ Len(apCalls) <= Len(PlatformOrder(apVariant))
    /\ apCalls = SubSeq(PlatformOrder(apVariant), 1, Len(apCalls))
    /\ apPc \in {"stats", "final", "done"} => apCalls = PlatformOrder(apVariant)
    /\ \A i \in 1..Len(apCalls) :
          LET p == apCalls[i] IN
          IF p \in apThrown
          THEN ~apResults[p].success /\ apResults[p].error \in ErrorMessages
          ELSE apResults[p].success /\ apResults[p].error = NoError

C11_Witness ==
    /\ apPc = "done"
    /\ apVariant = "six"
    /\ apThrown = {"meta", "dok_naver"}
    /\ apResults["naver"].success
    /\ apResults["dok_google"].success

\* C12: the process exits non-zero exactly when every platform fetch
\* failed, however the statistics block went.
C12_ExitOnlyWhenAllFail ==
    /\ apPc # "done" => apExit = NoExit
    /\ apPc = "done" =>
          /\ apExit \in {0, 1}
          /\ apExit = 1 <=> apThrown = PlatformSet(apVariant)
          /\ apExit = 1 <=> (\A p \in DOMAIN apResults : ~apResults[p].success)

C12_Witness ==
    /\ apPc = "done"
    /\ apStats = "summaryThrew"
    /\ apThrown = {"meta", "naver"}
    /\ apVariant = "three"
    /\ apExit = 0

-----------------------------------------------------------------------------
(* Properties of NaverDataAggregator                                        *)

\* The campaign ids of the AD rows and of the AD_CONVERSION rows.
AdIds   == { agAd[i].campaignId : i \in DOMAIN agAd }
ConvIds == { agConv[i].campaignId : i \in DOMAIN agConv }

\* Sum of field f over the rows of rows whose campaign id is in ids.
RECURSIVE SumRows(_, _, _, _)
SumRows(rows, f, ids, i) ==
    IF i > Len(rows) THEN 0
    ELSE (IF rows[i].campaignId \in ids THEN rows[i][f] ELSE 0)
         + SumRows(rows, f, ids, i + 1)

BrandIds ==
    { id \in AdIds : id \in DOMAIN agTypeMap /\ agTypeMap[id] = "BRAND_SEARCH_AD" }

\* C18: after aggregateByAdType every campaign of the grouped ad data is
\* counted in exactly one cohort: in brand iff the type map gives it
\* BRAND_SEARCH_AD, in powerlink otherwise, a campaign without an entry
\* included; each cohort's impressions, clicks and rank sums are those of
\* its own campaigns only.
C18_RoutingTotalExclusive ==
    agPc = "routed" =>
        /\ agResult.brand.campaignCount = Cardinality(BrandIds)
        /\ agResult.powerlink.campaignCount = Cardinality(AdIds \ BrandIds)
        /\ \A f \in {"impressions", "clicks", "sumAdRank"} :
              /\ agResult.brand[f] = SumRows(agAd, f, BrandIds, 1)
              /\ agResult.powerlink[f] = SumRows(agAd, f, AdIds \ BrandIds, 1)

C18_Witness ==
    /\ agPc = "routed"
    /\ AdIds = CampaignIds
    /\ DOMAIN agTypeMap = {"cmp-1"}
    /\ agTypeMap["cmp-1"] = "BRAND_SEARCH_AD"
    /\ agResult.brand.campaignCount = 1
    /\ agResult.powerlink.campaignCount = 1
    /\ agResult.powerlink.impressions = 20
    /\ agResult.brand.impressions = 10

\* C19: after every call of mergeConversionData, the first and the second
\* one alike, a campaign with conversion rows holds exactly the sums of the
\* dataset's rows for it, whatever it held before.
C19_MergeReplaces ==
    agMerges >= 1 =>
        \A id \in (DOMAIN agStats.val) \cap ConvIds :
            /\ agStats.val[id].conversions = SumRows(agConv, "conversionCount", {id}, 1)
            /\ agStats.val[id].conversionValue = SumRows(agConv, "conversionValue", {id}, 1)

C19_Witness ==
    /\ agMerges = 2
    /\ Len(agConv) = 2
    /\ "cmp-1" \in DOMAIN agStats.val
    /\ agStats.val["cmp-1"].conversions = 3
    /\ agStats.val["cmp-1"].conversionValue = 120

\* C20: mergeConversionData leaves the set and the order of the campaigns of
\* campaignStats as aggregateAdData built them, a campaign without
\* conversion rows keeps zero conversions, and the two cohorts together hold
\* only the conversions of campaigns that have AD rows.
C20_UnmatchedConversionsDropped ==
    /\ agPc \in {"grouped", "merged", "routed"} =>
          /\ DOMAIN agStats.val = AdIds
          /\ agStats.keys = AggregateAdData(agAd).keys
          /\ \A id \in AdIds \ ConvIds :
                agStats.val[id].conversions = 0 /\ agStats.val[id].conversionValue = 0
    /\ agPc = "routed" =>
          /\ agResult.powerlink.conversion + agResult.brand.conversion
                = SumRows(agConv, "conversionCount", AdIds, 1)
          /\ agResult.powerlink.conversionValue + agResult.brand.conversionValue
                = SumRows(agConv, "conversionValue", AdIds, 1)

C20_Witness ==
    /\ agPc = "routed"
    /\ AdIds = {"cmp-1"}
    /\ ConvIds = {"cmp-1", "cmp-2"}
    /\ DOMAIN agStats.val = {"cmp-1"}
    /\ agResult.powerlink.conversion + agResult.brand.conversion = 1
    /\ SumRows(agConv, "conversionCount", CampaignIds, 1) = 3

-----------------------------------------------------------------------------
(* Properties of the platform fetch functions (SpecFetch)                   *)

\* A terminal error of fetchNaverData has occurred: the function has
\* rejected, processStatReport has thrown, or a report of this call has
\* answered FAILED.
TerminalErrorSeen ==
    /\ fPlatform = "naver"
    /\ \/ fError # NoError
       \/ pollPc = "thrown"
       \/ nFailed > 0
       \/ fSawFailed

\* C13: in fetchNaverData, once a terminal error has occurred (report
\* creation failed, no job id, polling timed out or the job answered
\* FAILED, download failed) no further report is created, no upsert is
\* issued and the call does not resolve.
C13_TerminalErrorAborts ==
    [][TerminalErrorSeen =>
          /\ fCreated' = fCreated
          /\ fUpserts' = fUpserts
          /\ fPc' # "resolved"]_vars

\* C14: in fetchNaverData the AD_CONVERSION report is created only after
\* the AD report answered COMPLETE/BUILT and was downloaded; the one upsert
\* is sent only after both reports were downloaded; at most one request of
\* the function is unanswered at any time, and none while a report is being
\* polled or downloaded.
C14_NaverSequential ==
    fPlatform = "naver" =>
        /\ fCreated \in {<<>>, <<"AD">>, <<"AD", "AD_CONVERSION">>}
        /\ Len(fCreated) = 2 => [report |-> "AD", complete |-> TRUE] \in fDownloaded
        /\ Len(fUpserts) <= 1
        /\ Len(fUpserts) = 1 =>
              fDownloaded = {[report |-> "AD", complete |-> TRUE],
                             [report |-> "AD_CONVERSION", complete |-> TRUE]}
        /\ Cardinality(fInFlight) <= 1
        /\ pollPc # "idle" => fInFlight = {}

C14_Witness ==
    /\ fPlatform = "naver"
    /\ fPc = "resolved"
    /\ fCreated = <<"AD", "AD_CONVERSION">>
    /\ Len(fUpserts) = 1
    /\ Len(fUpserts[1].rows) = 2

\* The upsert calls made for day d, and the row lists built for it.
UpsertsFor(d) == { i \in DOMAIN fUpserts : fUpserts[i].date = d }
ProducedFor(d) == { i \in DOMAIN fProduced : fProduced[i].date = d }

\* A row without its updated_at field.
Unstamped(rows) ==
    [i \in DOMAIN rows |->
        [f \in (DOMAIN rows[i]) \ {"updated_at"} |-> rows[i][f]]]

\* C15: for every platform and every day there is at most one upsert call,
\* and a call carries exactly the rows built for its day, all of them.
C15_OneUpsertPerDate ==
    \A d \in 1..MaxDates :
        /\ Cardinality(UpsertsFor(d)) <= 1
        /\ Cardinality(ProducedFor(d)) <= 1
        /\ \A i \in UpsertsFor(d) :
              \E j \in ProducedFor(d) :
                 /\ Len(fUpserts[i].rows) = Len(fProduced[j].rows)
                 /\ Unstamped(fUpserts[i].rows) = Unstamped(fProduced[j].rows)

C15_Witness ==
    /\ fPlatform = "google"
    /\ fPc = "resolved"
    /\ Len(fDates) = 2
    /\ Len(fUpserts) = 2
    /\ Len(fUpserts[1].rows) = 2
    /\ Len(fUpserts[2].rows) = 1

\* C16: an upsert that answered with an error is the last request of the
\* call: the function has rejected with that very error and no other
\* upsert was made for the same day.
C16_StoreErrorFatal ==
    \A i \in DOMAIN fUpserts :
        fUpserts[i].error \notin {NoError, "<pending>"} =>
            /\ i = Len(fUpserts)
            /\ fPc = "rejected"
            /\ fError = fUpserts[i].error
            /\ Cardinality(UpsertsFor(fUpserts[i].date)) = 1

C16_Witness ==
    /\ fPlatform = "google"
    /\ fPc = "rejected"
    /\ Len(fDates) = 2
    /\ Len(fUpserts) = 1
    /\ fError = "duplicate key value"
    /\ fIdx = 1

\* C17: every row of every upsert call has the field updated_at, holding
\* the timestamp taken just before the call.
C17_RowsCarryTimestamp ==
    \A i \in DOMAIN fUpserts :
        \A j \in DOMAIN fUpserts[i].rows :
            /\ "updated_at" \in DOMAIN fUpserts[i].rows[j]
            /\ fUpserts[i].rows[j]["updated_at"] = NowStamp

-----------------------------------------------------------------------------
(* Further properties of NaverDataAggregator (SpecAgg)                      *)

\* rows with the rows at positions i and i + 1 exchanged.
SwapAt(rows, i) ==
    [k \in DOMAIN rows |-> IF k = i THEN rows[i + 1]
                           ELSE IF k = i + 1 THEN rows[i] ELSE rows[k]]

RowsOf(campaign) == { k \in DOMAIN agRows : agRows[k].campaign = campaign }

\* C22 as stated: a cohort that received no campaign, or only campaigns
\* without impressions, clicks and cost, gets no output row, and without ad
\* data no row is written at all.
C22_ZeroActivitySuppressed ==
    agPc = "rows" =>
        /\ (\/ agResult.powerlink.campaignCount = 0
            \/ /\ SumRows(agAd, "impressions", AdIds \ BrandIds, 1) = 0
               /\ SumRows(agAd, "clicks", AdIds \ BrandIds, 1) = 0
               /\ SumRows(agAd, "cost", AdIds \ BrandIds, 1) = 0)
              => RowsOf("Naver SA") = {}
        /\ (\/ agResult.brand.campaignCount = 0
            \/ /\ SumRows(agAd, "impressions", BrandIds, 1) = 0
               /\ SumRows(agAd, "clicks", BrandIds, 1) = 0
               /\ SumRows(agAd, "cost", BrandIds, 1) = 0)
              => RowsOf("Naver BS") = {}
        /\ agAd = <<>> => agRows = <<>>

\* C22, amended: only the powerlink cohort is suppressed.  Its row is
\* written exactly when its campaigns have some impressions, clicks or cost.
\* The brand row is always written, last, with the baseline spend 19486,
\* also when no campaign was routed to brand; without ad data it is the
\* only row.
C22_OnlyPowerlinkSuppressed ==
    agPc = "rows" =>
        /\ Cardinality(RowsOf("Naver SA")) <= 1
        /\ RowsOf("Naver SA") # {} <=>
              \/ SumRows(agAd, "impressions", AdIds \ BrandIds, 1) > 0
              \/ SumRows(agAd, "clicks", AdIds \ BrandIds, 1) > 0
              \/ SumRows(agAd, "cost", AdIds \ BrandIds, 1) > 0
        /\ RowsOf("Naver BS") = {Len(agRows)}
        /\ agRows[Len(agRows)].spend = 19486
        /\ agAd = <<>> =>
              agRows = <<[date |-> 1, campaign |-> "Naver BS", spend |-> 19486,
                          impressions |-> 0, clicks |-> 0, conversion |-> 0,
                          conversion_value |-> 0]>>

C22_Witness ==
    /\ agPc = "rows"
    /\ Len(agAd) = 2
    /\ agResult.powerlink.campaignCount = 2
    /\ agResult.brand.campaignCount = 0
    /\ agResult.powerlink.impressions = 0
    /\ Len(agRows) = 1
    /\ agRows[1].campaign = "Naver BS"

\* C23: after aggregateByAdType the brand spend is the baseline 19486
\* whatever the brand campaigns cost, and the powerlink spend is 1.1 times
\* the summed cost of the campaigns that are not brand campaigns.
C23_SpendPerCohort ==
    agPc \in {"routed", "rows"} =>
        /\ agResult.brand.spend = 19486
        /\ agResult.powerlink.spend * 10 = 11 * SumRows(agAd, "cost", AdIds \ BrandIds, 1)

C23_Witness ==
    /\ agPc = "routed"
    /\ BrandIds = {"cmp-1"}
    /\ SumRows(agAd, "cost", {"cmp-1"}, 1) = 100
    /\ SumRows(agAd, "cost", {"cmp-2"}, 1) = 50
    /\ agResult.powerlink.spend = 55
    /\ agResult.brand.spend = 19486

\* C27: the two cohorts together hold the impressions, clicks and rank sums
\* of all AD rows, count every campaign of the AD rows once, and hold the
\* conversions of exactly the AD_CONVERSION rows whose campaign has AD rows.
C27_TotalsConserved ==
    agPc \in {"routed", "rows"} =>
        /\ \A f \in {"impressions", "clicks", "sumAdRank"} :
              agResult.powerlink[f] + agResult.brand[f] = SumRows(agAd, f, CampaignIds, 1)
        /\ agResult.powerlink.campaignCount + agResult.brand.campaignCount
              = Cardinality({ agAd[k].campaignId : k \in DOMAIN agAd })
        /\ agResult.powerlink.conversion + agResult.brand.conversion
              = SumRows(agConv, "conversionCount",
                        { agAd[k].campaignId : k \in DOMAIN agAd }, 1)

C27_Witness ==
    /\ agPc = "routed"
    /\ Len(agAd) = 2
    /\ agAd[1].campaignId = agAd[2].campaignId
    /\ agResult.brand.impressions = 30
    /\ agResult.brand.campaignCount = 1
    /\ agResult.powerlink.campaignCount = 0
    /\ Len(agConv) = 2
    /\ agConv[1].campaignId # agConv[2].campaignId
    /\ agResult.brand.conversion \in {1, 2}

-----------------------------------------------------------------------------
\* Further properties of waitForReportCompletion (SpecPoll)

\* The status requests issued so far: the answered ones and the one in
\* flight while the loop body is at the axios.get.
StatusIssued == statusRequests + (IF pollPc = "status" THEN 1 ELSE 0)

\* C28: every status request is preceded by one POLLING_INTERVAL wait,
\* the first included: at every point the number of completed waits equals
\* the number of status requests issued, the waited time is that many
\* intervals, and no request is issued before the first wait.
C28_WaitBeforeEveryRequest ==
    /\ sleeps = StatusIssued
    /\ sleeps = attempts
    /\ sleeps * POLLING_INTERVAL = StatusIssued * 10000
    /\ StatusIssued > 0 => sleeps > 0

C28_Witness ==
    /\ pollPc = "status"
    /\ sleeps = 3
    /\ statusRequests = 2
    /\ nPending = 1
    /\ nTransport = 1

-----------------------------------------------------------------------------
\* Properties of the metric calculations (SpecMetrics)

\* C24: for non-negative counts each calculateMetrics function returns 0
\* when its denominator is 0 and the quotient otherwise; no result is NaN
\* or Infinity, and the rounded metrics of calculateAllMetrics are 0 in
\* the same cases.
C24_NaverRatiosGuarded ==
    mPc = "naver" =>
      /\ \A f \in DOMAIN mRaw : IsFinite(mRaw[f]) /\ IsFinite(mOut[f])
      /\ mIn.impressions = 0 =>
            /\ IsZero(mRaw.ctr) /\ IsZero(mRaw.cpm) /\ IsZero(mRaw.rank_avg)
            /\ IsZero(mOut.ctr) /\ IsZero(mOut.cpm) /\ IsZero(mOut.rank_avg)
      /\ mIn.clicks = 0 =>
            /\ IsZero(mRaw.cpc) /\ IsZero(mRaw.cvr)
            /\ IsZero(mOut.cpc) /\ IsZero(mOut.cvr)
      /\ mIn.conversion = 0 =>
            /\ IsZero(mRaw.cpa) /\ IsZero(mRaw.aov)
            /\ IsZero(mOut.cpa) /\ IsZero(mOut.aov)
      /\ mIn.spend = 0 => IsZero(mRaw.roas) /\ IsZero(mOut.roas)
      /\ mIn.impressions > 0 =>
            /\ mRaw.ctr.num * mIn.impressions = mIn.clicks * mRaw.ctr.den
            /\ mRaw.cpm.num * mIn.impressions = mIn.spend * 1000 * mRaw.cpm.den
            /\ mRaw.rank_avg.num * mIn.impressions = mIn.sumAdRank * mRaw.rank_avg.den
      /\ mIn.clicks > 0 =>
            /\ mRaw.cpc.num * mIn.clicks = mIn.spend * mRaw.cpc.den
            /\ mRaw.cvr.num * mIn.clicks = mIn.conversion * mRaw.cvr.den
      /\ mIn.conversion > 0 =>
            /\ mRaw.cpa.num * mIn.conversion = mIn.spend * mRaw.cpa.den
            /\ mRaw.aov.num * mIn.conversion = mIn.conversionValue * mRaw.aov.den
      /\ mIn.spend > 0 =>
            mRaw.roas.num * mIn.spend = mIn.conversionValue * mRaw.roas.den

C24_Witness ==
    /\ mPc = "naver"
    /\ mIn.impressions = 0
    /\ mIn.conversion = 0
    /\ mIn.spend = 1
    /\ mIn.clicks = 2
    /\ mRaw.cpc = [num |-> 1, den |-> 2]
    /\ mOut.cpc = [num |-> 50, den |-> 100]
    /\ mRaw.cpa = [num |-> 0, den |-> 1]

\* C25: in the Meta insight row mappings every ratio metric of the output
\* row is 0 when its denominator is 0; in particular cpa is 0 whenever the
\* purchase count is 0, with or without a purchase entry in
\* cost_per_action_type.
C25_MetaRatiosGuarded ==
    mPc \in {"meta", "meta_dok", "meta_legacy"} =>
      /\ \A f \in {"ctr", "cpc", "cvr", "cpm", "cpa", "aov", "roas"} : IsFinite(mOut[f])
      /\ mIn.impressions = 0 => IsZero(mOut.ctr) /\ IsZero(mOut.cpm)
      /\ mIn.clicks = 0 => IsZero(mOut.cpc) /\ IsZero(mOut.cvr)
      /\ mIn.spend = 0 => IsZero(mOut.roas)
      /\ mIn.conversion = 0 => IsZero(mOut.aov) /\ IsZero(mOut.cpa)

-----------------------------------------------------------------------------
\* Properties of parseCSV and the transformer (SpecCsv)

\* the column count the transformer of the report type asks for
MinColumns == IF cType = "AD" THEN 14 ELSE 13

\* the lines of the text with fewer fields than that
ShortLines == { i \in DOMAIN cText : Len(cText[i]) < MinColumns }

\* the lines of csvText.trim() that have enough fields and whose first
\* field holds something, in their order
KeptLines ==
    LET lines == SplitLines(cText) IN
    SelectSeq([i \in DOMAIN lines |-> i],
              LAMBDA i : Len(lines[i]) >= MinColumns /\ ~IsBlank(lines[i][1]))

\* C26 as claimed: a report text of N lines gives N minus the number of
\* short lines records (short: fewer than 14 fields, 13 for the conversion
\* report).
C26_OneRecordPerLongLine ==
    cPc = "records" => Len(cRecords) = Len(cText) - Cardinality(ShortLines)

\* C26 amended: the records are, in order, the lines of the trimmed text
\* that have at least 14 (13) fields and a first field that is not blank;
\* short lines and lines with a blank first field give no record.  When
\* the text neither starts nor ends with a blank field its lines are the
\* lines that are counted.
C26_OneRecordPerKeptLine ==
    cPc = "records" =>
      LET lines == SplitLines(cText) IN
      /\ Len(cRecords) = Len(KeptLines)
      /\ Len(cRecords) <= Len(cText) - Cardinality(ShortLines)
            \/ IsBlank(cText[1][1])
      /\ \A k \in DOMAIN cRecords :
            /\ cRecords[k].date = lines[KeptLines[k]][1]
            /\ cRecords[k].date # ""
            /\ cRecords[k].campaignId = TrimField(lines[KeptLines[k]][3])
            /\ cType = "AD" =>
                  cRecords[k].viewCount =
                     (IF lines[KeptLines[k]][14] = "7" THEN 7 ELSE 0)
            /\ cType = "AD_CONVERSION" =>
                  cRecords[k].conversionValue =
                     (IF lines[KeptLines[k]][13] = "7" THEN 7 ELSE 0)
      /\ (~IsBlank(cText[1][1])
            /\ ~IsBlank(cText[Len(cText)][Len(cText[Len(cText)])]))
           => lines = cText

C26_Witness ==
    /\ cPc = "records"
    /\ cType = "AD"
    /\ Len(cText) = 2
    /\ Len(cText[1]) = 14
    /\ cText[1][1] = "7"
    /\ Len(cText[2]) = 14
    /\ cText[2][1] = ""
    /\ cText[2][14] = "7"
    /\ Len(cRows) = 1
    /\ Len(cRecords) = 1

-----------------------------------------------------------------------------
\* Further properties of the platform fetch functions (SpecFetch)

\* the campaign ids of the AD records that were aggregated
AggregatedCampaigns ==
    { fAggregated.adData[i].campaignId : i \in DOMAIN fAggregated.adData }

\* C29: a failure of the campaigns request of fetchCampaignTypes does not
\* abort fetchNaverData: the answer is followed by the creation of the AD
\* report whatever it was, no error is recorded for it, both reports are
\* created and downloaded before the aggregation, and the aggregation then
\* routes every campaign to powerlink and none to brand.
C29_TypeLookupFailureSwallowed ==
    /\ [][(fPlatform = "naver" /\ fPc = "typesSent") =>
            /\ fPc' = "create"
            /\ fReport' = "AD"
            /\ fError' = fError]_vars
    /\ []((fPlatform = "naver" /\ fTypesFailed) =>
            /\ fError # "campaignsFailed"
            /\ fAggregated # NoValue =>
                  /\ fCreated = <<"AD", "AD_CONVERSION">>
                  /\ { r.report : r \in fDownloaded } = {"AD", "AD_CONVERSION"}
                  /\ fAggregated.result.brand.campaignCount = 0
                  /\ fAggregated.result.brand.impressions = 0
                  /\ fAggregated.result.powerlink.campaignCount
                        = Cardinality(AggregatedCampaigns))

C29_Witness ==
    /\ fPlatform = "naver"
    /\ fTypesFailed
    /\ fPc = "resolved"
    /\ fCreated = <<"AD", "AD_CONVERSION">>
    /\ fAggregated # NoValue
    /\ AggregatedCampaigns = {"cmp-1"}
    /\ fAggregated.result.powerlink.campaignCount = 1
    /\ fAggregated.result.brand.campaignCount = 0
    /\ Len(fUpserts) = 1

\* the position of day d in datesToRun
PosOf(d) == CHOOSE k \in DOMAIN fDates : fDates[k] = d

\* C30: fetchAndUpsertMetaAdset processes the dates in order; the upsert
\* of a date is sent only after a response without paging.next ended the
\* pagination loop, and the loop goes on while the last response had one;
\* a date without insight rows gets no upsert and the next date is
\* processed; an error ends the run with the later dates unprocessed and
\* the upserts of the earlier dates as they were sent.
C30_AdsetDatesInOrder ==
    /\ [](fPlatform = "meta_adset" =>
            /\ \A i \in DOMAIN fProduced : fProduced[i].date = fDates[i]
            /\ \A i, j \in DOMAIN fUpserts :
                  i < j => PosOf(fUpserts[i].date) < PosOf(fUpserts[j].date)
            /\ fPc \in {"details", "upsert"} => ~fHasNext /\ fPages >= 1 /\ fInsight > 0
            /\ (fPc = "pages" /\ fPages > 0) => fHasNext
            /\ \A i \in DOMAIN fProduced :
                  fProduced[i].rows = <<>> => UpsertsFor(fProduced[i].date) = {}
            /\ fPc = "resolved" => Len(fProduced) = Len(fDates)
            /\ fPc = "rejected" =>
                  /\ Len(fProduced) <= fIdx
                  /\ \A i \in DOMAIN fUpserts : PosOf(fUpserts[i].date) <= fIdx
                  /\ \A i \in 1..(fIdx - 1) :
                        fProduced[i].rows # <<>> =>
                          \E u \in UpsertsFor(fDates[i]) : fUpserts[u].error = NoError)
    /\ [][fPlatform = "meta_adset" =>
            /\ Len(fUpserts') >= Len(fUpserts)
            /\ SubSeq(fUpserts', 1, Len(fUpserts)) = fUpserts
            /\ fUpserts' # fUpserts => fPc = "upsert" /\ ~fHasNext
            /\ fPc = "rejected" => fProduced' = fProduced /\ fUpserts' = fUpserts
            /\ (fPc = "pages" /\ Len(fProduced') > Len(fProduced)) =>
                  /\ fUpserts' = fUpserts
                  /\ IF fIdx < Len(fDates)
                     THEN fPc' = "pages" /\ fIdx' = fIdx + 1
                     ELSE fPc' = "resolved"]_vars

C30_Witness ==
    /\ fPlatform = "meta_adset"
    /\ fPc = "rejected"
    /\ Len(fDates) = 2
    /\ fIdx = 2
    /\ Len(fProduced) = 2
    /\ fProduced[1].rows # <<>>
    /\ Len(fUpserts) = 2
    /\ fUpserts[1].error = NoError
    /\ fUpserts[2].error = "permission denied"
    /\ fPages = 2

=============================================================================
